---- MODULE Spec2Model ----
(***************************************************************************)
(* A model of the AML ledger of ImMriganka/aml-blockchain-system:          *)
(* blockchain/local_chain.py (LocalBlockchain), aml/pipeline.py            *)
(* (AMLPipeline) and the handlers of app.py that write to the ledger.      *)
(*                                                                         *)
(* Python values are tagged records  [k |-> tag, ...]  so that values of   *)
(* different Python types can be compared.  A dict that is hashed (a block *)
(* payload) is a sequence of key/value pairs in insertion order; a block   *)
(* is a function from its field names to values, since no code path reads  *)
(* the order of a block's fields.                                          *)
(***************************************************************************)
EXTENDS Integers, Sequences, FiniteSets, TLC

(***************************************************************************)
(* Bounds of the model.                                                    *)
(***************************************************************************)
\* number of digits of a digest; the model's digits are binary (SHA-256's
\* hexdigest has 64 hexadecimal digits)
DigestLen == 4
\* the largest chain the ledger grows by appending
MaxChain == 3
\* the number of LocalBlockchain instances (key pairs) ever constructed
MaxInstances == 2

\* LocalBlockchain.DEFAULT_DIFFICULTY
DEFAULT_DIFFICULTY == 4

\* the number of values of a digest's digits
Space == 2 ^ DigestLen

(***************************************************************************)
(* Python / JSON values.                                                   *)
(***************************************************************************)
Str(s) == [k |-> "str", v |-> s]
Num(n) == [k |-> "num", v |-> n]
Flt(n) == [k |-> "float", v |-> n]      \* a float, in hundredths
Bool(b) == [k |-> "bool", v |-> b]
None == [k |-> "none"]
Dict(pairs) == [k |-> "dict", v |-> pairs]
List(items) == [k |-> "list", v |-> items]
Tuple(items) == [k |-> "tuple", v |-> items]
KV(key, val) == [key |-> key, val |-> val]
\* the decimal text of an integer, as str.format writes it
Dec(n) == [k |-> "dec", v |-> n]

EmptyDict == Dict(<<>>)

\* a Python dict that is a block: a function from field names to values
IsDict(b) == "k" \notin DOMAIN b

\* bool(v): Python truthiness
Truthy(v) ==
    CASE v.k = "str" -> v.v # ""
      [] v.k = "num" -> v.v # 0
      [] v.k = "float" -> v.v # 0
      [] v.k = "bool" -> v.v
      [] v.k = "none" -> FALSE
      [] v.k = "dict" -> v.v # <<>>
      [] v.k = "list" -> v.v # <<>>
      [] v.k = "tuple" -> v.v # <<>>
      [] OTHER -> TRUE

\* dict.get(key, default) on a block
Get(b, f, default) == IF f \in DOMAIN b THEN b[f] ELSE default

\* dict.get / `in` / item assignment on a payload dict (pairs in insertion order)
HasKey(d, key) == \E i \in 1..Len(d.v) : d.v[i].key = key
DGet(d, key, default) ==
    IF HasKey(d, key)
    THEN d.v[CHOOSE i \in 1..Len(d.v) : d.v[i].key = key].val
    ELSE default
DSet(d, key, val) ==
    IF HasKey(d, key)
    THEN Dict([i \in 1..Len(d.v) |->
                 IF d.v[i].key = key THEN KV(key, val) ELSE d.v[i]])
    ELSE Dict(Append(d.v, KV(key, val)))

(***************************************************************************)
(* json.dumps(data, sort_keys=True): the keys of every dict, at every      *)
(* depth, in sorted order.  KeyOrder lists the keys of the model in        *)
(* Python's string order.                                                  *)
(***************************************************************************)
KeyOrder == <<"amount", "contract", "eth_block_number", "eth_tx_hash", "ethereum",
              "event", "explanation", "external_id", "fraud_probability",
              "is_fraud", "kyc_ok", "reason", "receiver_id",
              "rule_compliant", "rule_reason", "sender_id", "status",
              "system", "transaction">>
KeyRank ==
    [key \in {KeyOrder[i] : i \in 1..Len(KeyOrder)} |->
       CHOOSE i \in 1..Len(KeyOrder) : KeyOrder[i] = key]
Rank(key) == KeyRank[key]

\* the pairs in the order of their keys (the keys of a dict are distinct)
PlaceOf(rank, i) == Cardinality({j \in DOMAIN rank : rank[j] < rank[i]}) + 1
SortByRank(pairs, rank) ==
    [p \in DOMAIN rank |-> pairs[CHOOSE i \in DOMAIN rank : PlaceOf(rank, i) = p]]
SortPairs(pairs) == SortByRank(pairs, [i \in 1..Len(pairs) |-> Rank(pairs[i].key)])

\* a serialization that sorts the keys of the payload itself and leaves the
\* dicts inside it in insertion order
Canon_top(v) ==
    CASE v.k = "dict" -> Dict(SortPairs(v.v))
      [] v.k \in {"list", "tuple"} -> List(v.v)
      [] OTHER -> v

RECURSIVE Canon(_)
Canon(v) ==
    CASE v.k = "dict" ->
           LET s == SortPairs(v.v)
           IN Dict([i \in 1..Len(s) |-> KV(s[i].key, Canon(s[i].val))])
      [] v.k \in {"list", "tuple"} ->
           List([i \in 1..Len(v.v) |-> Canon(v.v[i])])
      [] OTHER -> v

json_dumps_sorted(data) == [k |-> "json", v |-> Canon(data)]

(***************************************************************************)
(* SHA-256.  A digest is the record of its preimage (no two preimages      *)
(* share a digest) together with n, the number its DigestLen digits spell  *)
(* in base 2; n decides the leading-zero test of proof of work.            *)
(***************************************************************************)
RECURSIVE JsonCode(_)
RECURSIVE SumSeq(_, _)
SumSeq(items, i) ==
    IF i = 0 THEN 0
    ELSE (JsonCode(IF "val" \in DOMAIN items[i] THEN items[i].val ELSE items[i])
          + SumSeq(items, i - 1)) % Space
JsonCode(v) ==
    CASE v.k = "num" -> v.v % Space
      [] v.k = "float" -> v.v % Space
      [] v.k = "dec" -> v.v % Space
      [] v.k = "bool" -> IF v.v THEN 1 ELSE 0
      [] v.k = "none" -> 0
      [] v.k = "hex" -> v.n
      [] v.k = "aid" -> v.key % Space
      [] v.k = "dict" -> (Len(v.v) + SumSeq(v.v, Len(v.v))) % Space
      [] v.k \in {"list", "tuple"} ->
           (Len(v.v) + SumSeq(v.v, Len(v.v))) % Space
      [] v.k = "json" -> JsonCode(v.v)
      [] OTHER -> 1

\* str.format of a value inside an f-string: 0 and "0" give the same text
Fmt(v) ==
    CASE v.k = "num" -> Dec(v.v)
      [] v = Str("0") -> Dec(0)
      [] v.k = "bool" -> Str(IF v.v THEN "True" ELSE "False")
      [] v.k = "none" -> Str("None")
      [] OTHER -> v

\* the digits of the digest of a text made of `parts`
Digits(parts) ==
    (  (IF Len(parts) > 0 THEN 3 * JsonCode(parts[1]) ELSE 0)
     + (IF Len(parts) > 1 THEN 5 * JsonCode(parts[2]) ELSE 0)
     + (IF Len(parts) > 2 THEN 7 * JsonCode(parts[3]) ELSE 0)
     + (IF Len(parts) > 3 THEN JsonCode(parts[4]) ELSE 0)) % Space

sha256(parts) == [k |-> "hex", pre |-> parts, n |-> Digits(parts)]

\* hexdigest.startswith("0" * d)
StartsWithZeros(h, d) ==
    \/ d <= 0
    \/ d <= DigestLen /\ h.n < 2 ^ (DigestLen - d)

calculate_merkle_root(data) == sha256(<<json_dumps_sorted(data)>>)

\* block.get("data", {}) or {}
DataOf(d0) == IF Truthy(d0) THEN d0 ELSE Dict(<<>>)

_calculate_merkle_for_block(block) ==
    sha256(<<json_dumps_sorted(DataOf(Get(block, "data", Dict(<<>>))))>>)

_compute_pow_hash(previous_hash, timestamp, merkle_root, nonce) ==
    sha256(<<Fmt(previous_hash), Dec(timestamp), Fmt(merkle_root), Dec(nonce)>>)

_compute_poa_hash(previous_hash, timestamp, merkle_root, authority_id) ==
    sha256(<<Fmt(previous_hash), Dec(timestamp), Fmt(merkle_root), Fmt(authority_id)>>)

(***************************************************************************)
(* Cryptographic identity.  A key pair is its number; the PEM text of the  *)
(* public key, the authority id (the first 16 digits of the PEM's digest)  *)
(* and an RSA-PSS signature are records over it.                           *)
(***************************************************************************)
Pem(key) == [k |-> "pem", key |-> key]

_authority_id(key) == [k |-> "aid", key |-> key]

_sign_data(key, data) == [k |-> "sig", by |-> key, msg |-> json_dumps_sorted(data)]

\* every exception inside (a key that is no PEM text, a signature that is
\* no hex text, a failed verification) is caught and gives False
_verify_signature(public_pem, data, signature_hex) ==
    /\ public_pem.k = "pem"
    /\ signature_hex.k = "sig"
    /\ signature_hex.by = public_pem.key
    /\ signature_hex.msg = json_dumps_sorted(data)

(***************************************************************************)
(* create_block: the proof-of-work search and the block record.            *)
(***************************************************************************)
\* the while-loop of create_block from `nonce` on: the first nonce whose
\* digest starts with `difficulty` zeros.  Every value of the digits is met
\* within Space nonces; when none of them fits the loop never ends: NoNonce
NoNonce == 0 - 1
RECURSIVE MineFrom(_, _, _, _, _)
MineFrom(previous_hash, timestamp, merkle_root, difficulty, nonce) ==
    IF nonce >= Space THEN NoNonce
    ELSE IF StartsWithZeros(
              _compute_pow_hash(previous_hash, timestamp, merkle_root, nonce),
              difficulty)
    THEN nonce
    ELSE MineFrom(previous_hash, timestamp, merkle_root, difficulty, nonce + 1)

\* a create_block whose search starts at nonce 1
MineNonce_from_one(previous_hash, timestamp, merkle_root, difficulty) ==
    MineFrom(previous_hash, timestamp, merkle_root, difficulty, 1)

\* a create_block that takes the first nonce without searching
MineNonce_first(previous_hash, timestamp, merkle_root, difficulty) == 0

MineNonce(previous_hash, timestamp, merkle_root, difficulty) ==
    MineFrom(previous_hash, timestamp, merkle_root, difficulty, 0)

\* a create_block that links every block to the first one
LastHash_first(ch) == IF ch # <<>> THEN ch[1]["hash"] ELSE Str("0")

\* self.chain[-1]["hash"] if self.chain else "0"
LastHash(ch) == IF ch # <<>> THEN ch[Len(ch)]["hash"] ELSE Str("0")

\* the block record of create_block; authority_id is None in PoW mode
BlockRecord(index, timestamp, data, merkle_root, previous_hash, block_hash, nonce, difficulty, cons, key, authority_id) ==
    IF authority_id = None
    THEN [index |-> Num(index),
          timestamp |-> Num(timestamp),
          data |-> data,
          merkle_root |-> merkle_root,
          previous_hash |-> previous_hash,
          hash |-> block_hash,
          nonce |-> Num(nonce),
          difficulty |-> Num(difficulty),
          consensus |-> Str(cons),
          signature |-> _sign_data(key, data),
          public_key |-> Pem(key)]
    ELSE [index |-> Num(index),
          timestamp |-> Num(timestamp),
          data |-> data,
          merkle_root |-> merkle_root,
          previous_hash |-> previous_hash,
          hash |-> block_hash,
          nonce |-> Num(nonce),
          difficulty |-> Num(difficulty),
          consensus |-> Str(cons),
          signature |-> _sign_data(key, data),
          public_key |-> Pem(key),
          authority_id |-> authority_id]

PowBlock(index, timestamp, data, merkle_root, previous_hash, nonce, difficulty, key) ==
    BlockRecord(index, timestamp, data, merkle_root, previous_hash,
                _compute_pow_hash(previous_hash, timestamp, merkle_root, nonce),
                nonce, difficulty, "pow", key, None)

PoaBlock(index, timestamp, data, merkle_root, previous_hash, authority_id, key) ==
    BlockRecord(index, timestamp, data, merkle_root, previous_hash,
                _compute_poa_hash(previous_hash, timestamp, merkle_root, authority_id),
                0, 0, "poa", key, authority_id)

BlockOn(index, cons, diff, key, timestamp, data, previous_hash, merkle_root) ==
    IF cons = "pow"
    THEN PowBlock(index, timestamp, data, merkle_root, previous_hash,
                  MineNonce(previous_hash, timestamp, merkle_root, diff), diff, key)
    ELSE PoaBlock(index, timestamp, data, merkle_root, previous_hash,
                  _authority_id(key), key)

\* the block create_block builds on `ch` (the caller has checked that the
\* search ends)
NewBlock(ch, cons, diff, key, timestamp, data) ==
    BlockOn(Len(ch) + 1, cons, diff, key, timestamp, data, LastHash(ch),
            calculate_merkle_root(data))

\* create_block returns: false when the proof-of-work loop never ends
MiningEnds(ch, cons, diff, timestamp, data) ==
    \/ cons # "pow"
    \/ MineNonce(LastHash(ch), timestamp, calculate_merkle_root(data), diff) # NoNonce

(***************************************************************************)
(* is_valid_chain.  The outcome of validating a candidate is "True",       *)
(* "False" or "raise" (an exception leaves the function).                  *)
(***************************************************************************)
RequiredFields == {"timestamp", "data", "merkle_root", "hash"}

\* int(v): the integer, or no integer (ValueError / TypeError)
IntOk(v) == v.k \in {"num", "bool", "float"} \/ v = Str("0")
IntOf(v) ==
    CASE v.k = "num" -> v.v
      [] v.k = "bool" -> IF v.v THEN 1 ELSE 0
      [] v.k = "float" -> v.v \div 100
      [] OTHER -> 0

\* `field not in block` on an element that is no dict: a membership test on
\* a number, a boolean or null raises TypeError; on a string or a list the
\* field name is not found
NonDictOutcome(block) ==
    IF block.k \in {"str", "list", "hex", "dict"} THEN "False" ELSE "raise"

\* a validator that requires a verifying signature on every block
CheckSignature_required(block, signature_hex, public_pem) ==
    IF /\ Truthy(signature_hex)
       /\ Truthy(public_pem)
       /\ _verify_signature(public_pem, DataOf(block["data"]), signature_hex)
    THEN "ok"
    ELSE "False"

\* step 4: the signature, when the block has one and a public key
CheckSignature(block, signature_hex, public_pem) ==
    IF /\ Truthy(signature_hex)
       /\ Truthy(public_pem)
       /\ ~_verify_signature(public_pem, DataOf(block["data"]), signature_hex)
    THEN "False"
    ELSE "ok"

\* a validator that compares the digest and never tests its leading zeros
CheckHash_no_target(block, consensus, difficulty, recomputed_hash) ==
    IF recomputed_hash # block["hash"] THEN "False"
    ELSE CheckSignature(block, Get(block, "signature", None),
                        Get(block, "public_key", None))

\* step 3, after the hash was recomputed by the block's consensus
CheckHash(block, consensus, difficulty, recomputed_hash) ==
    IF recomputed_hash # block["hash"] THEN "False"
    ELSE IF /\ consensus = Str("pow")
            /\ difficulty > 0
            /\ ~StartsWithZeros(recomputed_hash, difficulty)
    THEN "False"
    ELSE CheckSignature(block, Get(block, "signature", None),
                        Get(block, "public_key", None))

\* a validator that picks the digest formula from the block's difficulty and
\* not from its tag
CheckConsensus_by_difficulty(block, timestamp, prev_hash, merkle_root, nonce, difficulty, consensus) ==
    CheckHash(block, consensus, difficulty,
              IF difficulty > 0
              THEN _compute_pow_hash(prev_hash, timestamp, merkle_root, nonce)
              ELSE _compute_poa_hash(prev_hash, timestamp, merkle_root,
                                     Get(block, "authority_id", Str(""))))

CheckConsensus(block, timestamp, prev_hash, merkle_root, nonce, difficulty, consensus) ==
    CheckHash(block, consensus, difficulty,
              IF consensus = Str("pow")
              THEN _compute_pow_hash(prev_hash, timestamp, merkle_root, nonce)
              ELSE _compute_poa_hash(prev_hash, timestamp, merkle_root,
                                     Get(block, "authority_id", Str(""))))

\* a validator that holds every block to the default difficulty, not to the
\* difficulty the block records
CheckNumbers_default(block, timestamp, nonce, difficulty) ==
    CheckConsensus(block, timestamp, Get(block, "previous_hash", Str("")),
                   block["merkle_root"], nonce, DEFAULT_DIFFICULTY,
                   Get(block, "consensus", Str("pow")))

CheckNumbers(block, timestamp, nonce, difficulty) ==
    CheckConsensus(block, timestamp, Get(block, "previous_hash", Str("")),
                   block["merkle_root"], nonce, difficulty,
                   Get(block, "consensus",
                       Str(IF difficulty > 0 THEN "pow" ELSE "poa")))

CheckFields(chain, i, block) ==
    IF ~IsDict(block) THEN NonDictOutcome(block)
    ELSE IF \E f \in RequiredFields : f \notin DOMAIN block THEN "False"
    ELSE IF i > 1 /\ Get(block, "previous_hash", None) # Get(chain[i - 1], "hash", None)
         THEN "False"
    ELSE IF block["merkle_root"] # _calculate_merkle_for_block(block) THEN "False"
    ELSE IF \/ ~IntOk(block["timestamp"])
            \/ ~IntOk(Get(block, "nonce", Num(0)))
            \/ ~IntOk(Get(block, "difficulty", Num(0)))
         THEN "False"
    ELSE CheckNumbers(block, IntOf(block["timestamp"]),
                      IntOf(Get(block, "nonce", Num(0))),
                      IntOf(Get(block, "difficulty", Num(0))))

CheckBlock(chain, i) == CheckFields(chain, i, chain[i])

\* the loop over the blocks returns at the first block that fails
RECURSIVE ValidFrom(_, _)
ValidNext(chain, i, r) == IF r = "ok" THEN ValidFrom(chain, i + 1) ELSE r
ValidFrom(chain, i) ==
    IF i > Len(chain) THEN "True" ELSE ValidNext(chain, i, CheckBlock(chain, i))

is_valid_chain(chain) ==
    IF chain = <<>> THEN "False" ELSE ValidFrom(chain, 1)

(***************************************************************************)
(* Persistence: chain.json.  The file is absent, holds a complete JSON     *)
(* document, or holds a torn text (a write that did not finish, or bytes   *)
(* that are no JSON document).                                             *)
(***************************************************************************)
Absent == [k |-> "absent"]
Torn == [k |-> "torn"]
File(doc) == [k |-> "file", doc |-> doc]

\* the JSON document json.dump writes for a value, as the value json.load
\* reads back from it: a dict is an object, a list and a tuple are both an
\* array (read back as a list), a number, a string, a boolean and None are
\* written and read back as they are
RECURSIVE json_dump(_)
json_dump(v) ==
    IF IsDict(v) THEN [f \in DOMAIN v |-> json_dump(v[f])]
    ELSE CASE v.k = "dict" ->
                Dict([i \in 1..Len(v.v) |-> KV(v.v[i].key, json_dump(v.v[i].val))])
           [] v.k \in {"list", "tuple"} ->
                List([i \in 1..Len(v.v) |-> json_dump(v.v[i])])
           [] OTHER -> v

\* save_chain: the file after open(CHAIN_FILE, "w") and json.dump have
\* both completed
save_chain(ch) == File(json_dump(List(ch)))

\* load_chain: the value left in self.chain (the empty list when the file
\* is absent or json.load raises)
load_chain(st) == IF st.k = "file" THEN st.doc ELSE List(<<>>)

\* is_valid_chain on whatever json.load returned: len() of a number or a
\* boolean raises TypeError, chain[0] of a JSON object raises KeyError, the
\* elements of a string are one-character strings without the fields
ValidateLoaded(doc) ==
    CASE doc.k = "list" -> is_valid_chain(doc.v)
      [] doc.k = "str" -> "False"
      [] OTHER -> "raise"

(***************************************************************************)
(* The payloads and the pipeline (aml/pipeline.py).                        *)
(***************************************************************************)
GenesisData == Dict(<<KV("system", Str("Blockchain Initialized"))>>)
EventTx1 == Dict(<<KV("event", Str("tx1"))>>)

\* AMLConfig
HighValueThreshold == 25000
FraudThreshold == 50

VerifiedUsers == {Str("IN12345"), Str("US67890"), Str("SG34567")}

\* a transaction: the fields the pipeline and the ledger read
Tx(amount, sender, receiver) ==
    Dict(<<KV("amount", Num(amount)), KV("sender_id", Str(sender)),
           KV("receiver_id", Str(receiver))>>)

check_kyc(transaction) ==
    /\ DGet(transaction, "sender_id", None) \in VerifiedUsers
    /\ DGet(transaction, "receiver_id", None) \in VerifiedUsers

\* enforce_rules: <<compliant, reason>>
enforce_rules(transaction) ==
    LET amount == DGet(transaction, "amount", Flt(0)) IN
    IF amount.k \notin {"num", "float", "bool"}
    THEN <<FALSE, "Invalid amount value">>
    ELSE IF IntOf(amount) > HighValueThreshold
    THEN <<FALSE, "High-risk transaction amount">>
    ELSE <<TRUE, "Compliant">>

\* a pipeline that checks the rules before KYC
evaluate_transaction_rules_first(transaction, external_id, fraud_prob, explanation) ==
    LET r0 == Dict(<<KV("external_id", external_id),
                     KV("transaction", transaction)>>)
        kyc_ok == check_kyc(transaction)
        r1 == DSet(r0, "kyc_ok", Bool(kyc_ok))
        rules == enforce_rules(transaction)
        r2 == DSet(DSet(r1, "rule_compliant", Bool(rules[1])),
                   "rule_reason", Str(rules[2]))
        is_fraud == fraud_prob >= FraudThreshold
        r3 == DSet(DSet(DSet(r2, "fraud_probability", Flt(fraud_prob)),
                        "is_fraud", Bool(is_fraud)),
                   "status", Str(IF is_fraud THEN "flagged_fraud" ELSE "approved"))
    IN IF ~rules[1]
       THEN DSet(DSet(r2, "status", Str("rejected_rules")), "reason", Str(rules[2]))
       ELSE IF ~kyc_ok
       THEN DSet(DSet(r1, "status", Str("rejected_kyc")),
                 "reason", Str("KYC verification failed"))
       ELSE DSet(r3, "explanation", explanation)

\* evaluate_transaction: the record handed to sink.store_evaluation;
\* fraud_prob (in hundredths) and explanation are the model's answers
evaluate_transaction(transaction, external_id, fraud_prob, explanation) ==
    LET r0 == Dict(<<KV("external_id", external_id),
                     KV("transaction", transaction)>>)
        kyc_ok == check_kyc(transaction)
        r1 == DSet(r0, "kyc_ok", Bool(kyc_ok))
        rules == enforce_rules(transaction)
        r2 == DSet(DSet(r1, "rule_compliant", Bool(rules[1])),
                   "rule_reason", Str(rules[2]))
        is_fraud == fraud_prob >= FraudThreshold
        r3 == DSet(DSet(DSet(r2, "fraud_probability", Flt(fraud_prob)),
                        "is_fraud", Bool(is_fraud)),
                   "status", Str(IF is_fraud THEN "flagged_fraud" ELSE "approved"))
    IN IF ~kyc_ok
       THEN DSet(DSet(r1, "status", Str("rejected_kyc")),
                 "reason", Str("KYC verification failed"))
       ELSE IF ~rules[1]
       THEN DSet(DSet(r2, "status", Str("rejected_rules")), "reason", Str(rules[2]))
       ELSE DSet(r3, "explanation", explanation)

(***************************************************************************)
(* The state.                                                              *)
(***************************************************************************)
VARIABLES
    status,      \* the process: "down", "up", or "hung" in a search without end
    consensus,   \* self.consensus
    difficulty,  \* self.difficulty
    key,         \* self._private_key / self._public_key
    chain,       \* self.chain
    nodes,       \* self.nodes
    store,       \* chain.json
    nkeys,       \* the key pairs generated so far
    appends,     \* the blocks appended since the chain was bootstrapped,
                 \* NoCount once a peer's chain has taken its place
    AUTO_ENABLED,\* app.py: the switch of the auto-simulator
    threads,     \* app.py: where each thread is in its handler, and its locals
    last         \* the last call and what it returned

vars == <<status, consensus, difficulty, key, chain, nodes, store, nkeys,
          appends, AUTO_ENABLED, threads, last>>

\* the state of app.py
appvars == <<AUTO_ENABLED, threads>>

\* the request threads of Flask and the auto-simulator thread
Threads == {"web", "auto"}
Idle == [pc |-> "idle"]

NoCount == 0 - 1

\* the values int(time.time()) returns
Times == {0, 1}

\* the clock does not run backwards: the values int(time.time()) returns
\* once the last block of `ch` has been stamped
ClockAt(ch) ==
    {t \in Times : ch = <<>> \/ t >= ch[Len(ch)]["timestamp"].v}

\* the state of a process that is not running
NoInstance ==
    /\ consensus' = "none"
    /\ difficulty' = 0
    /\ key' = 0
    /\ chain' = <<>>
    /\ nodes' = {}

Init ==
    /\ status = "down"
    /\ consensus = "none"
    /\ difficulty = 0
    /\ key = 0
    /\ chain = <<>>
    /\ nodes = {}
    /\ store = Absent
    /\ nkeys = 0
    /\ appends = NoCount
    /\ AUTO_ENABLED = FALSE
    /\ threads = [t \in Threads |-> Idle]
    /\ last = [op |-> "none"]

(***************************************************************************)
(* LocalBlockchain.__init__                                                *)
(***************************************************************************)
\* the configurations a node is started with: <<consensus, difficulty>>,
\* None for the default difficulty
Configs == {<<"poa", None>>, <<"pow", None>>, <<"pow", Num(DigestLen + 1)>>}

\* _init_fresh_chain, or a genesis search that never ends
FreshOutcome(fresh) ==
    [ret |-> "fresh", chain |-> fresh, store |-> save_chain(fresh)]

\* a constructor that keeps a stored chain only when this instance's own key
\* signed its blocks
InitVerdict_own(cons, diff, k, st, t, loaded, verdict) ==
    IF /\ verdict = "True"
       /\ \A i \in 1..Len(loaded.v) : loaded.v[i]["public_key"] = Pem(k)
    THEN [ret |-> "loaded", chain |-> loaded.v, store |-> st]
    ELSE IF verdict = "raise"
    THEN [ret |-> "raise", chain |-> <<>>, store |-> st]
    ELSE FreshOutcome(<<NewBlock(<<>>, cons, diff, k, t, GenesisData)>>)

InitVerdict(cons, diff, k, st, t, loaded, verdict) ==
    CASE verdict = "True" ->
           [ret |-> "loaded", chain |-> loaded.v, store |-> st]
      [] verdict = "raise" ->
           [ret |-> "raise", chain |-> <<>>, store |-> st]
      [] OTHER ->
           IF MiningEnds(<<>>, cons, diff, t, GenesisData)
           THEN FreshOutcome(<<NewBlock(<<>>, cons, diff, k, t, GenesisData)>>)
           ELSE [ret |-> "hang", chain |-> <<>>, store |-> st]

InitLoaded(cons, diff, k, st, t, loaded) ==
    InitVerdict(cons, diff, k, st, t, loaded,
                IF ~Truthy(loaded) THEN "empty" ELSE ValidateLoaded(loaded))

\* __init__(consensus, difficulty) on the store `st` with the fresh key k:
\* the outcome and the chain and store it leaves
InitOutcome(cons, diff, k, st, t) ==
    InitLoaded(cons, diff, k, st, t, load_chain(st))

Constructed(cons, diff, out) ==
    /\ nkeys' = nkeys + 1
    /\ store' = out.store
    /\ last' = [op |-> "__init__", ret |-> out.ret]
    /\ appends' = IF out.ret = "fresh" THEN 0 ELSE appends
    /\ UNCHANGED appvars
    /\ IF out.ret = "raise"
       THEN status' = "down" /\ NoInstance
       ELSE /\ status' = IF out.ret = "hang" THEN "hung" ELSE "up"
            /\ consensus' = cons
            /\ difficulty' = diff
            /\ key' = nkeys + 1
            /\ chain' = out.chain
            /\ nodes' = {}

ArgOr(diffArg, default) == IF diffArg = None THEN default ELSE diffArg.v

ConstructWith(cons, diff, now) ==
    Constructed(cons, diff, InitOutcome(cons, diff, nkeys + 1, store, now))

Construct(cons, diffArg, now) ==
    /\ status = "down"
    /\ nkeys < MaxInstances
    /\ ConstructWith(cons, ArgOr(diffArg, DEFAULT_DIFFICULTY), now)

Start == \E cfg \in Configs, now \in Times : Construct(cfg[1], cfg[2], now)

\* the process ends (between calls, or killed while it hangs)
Exit ==
    /\ status \in {"up", "hung"}
    /\ status' = "down"
    /\ NoInstance
    /\ last' = [op |-> "exit", chain |-> chain]
    /\ UNCHANGED <<store, nkeys, appends, appvars>>

(***************************************************************************)
(* store_evaluation / create_block                                         *)
(***************************************************************************)
Payloads == {
             evaluate_transaction(Tx(30000, "UK54321", "SG34567"),
                                  Str("tx-2"), 0, EmptyDict)}

\* a create_block that returns the block without appending it
Appended_lost(block) ==
    /\ chain' = chain
    /\ store' = save_chain(chain')
    /\ last' = [op |-> "store_evaluation", ret |-> block]
    /\ appends' = IF appends = NoCount THEN NoCount ELSE appends + 1
    /\ UNCHANGED status

Appended(block) ==
    /\ chain' = Append(chain, block)
    /\ store' = save_chain(chain')
    /\ last' = [op |-> "store_evaluation", ret |-> block]
    /\ appends' = IF appends = NoCount THEN NoCount ELSE appends + 1
    /\ UNCHANGED status

create_block(data, now) ==
    IF MiningEnds(chain, consensus, difficulty, now, data)
    THEN Appended(NewBlock(chain, consensus, difficulty, key, now, data))
    ELSE /\ status' = "hung"
         /\ last' = [op |-> "store_evaluation", ret |-> None]
         /\ UNCHANGED <<chain, store, appends>>

StoreEvaluation ==
    /\ status = "up"
    /\ Len(chain) < MaxChain
    /\ \E data \in Payloads, now \in ClockAt(chain) : create_block(data, now)
    /\ UNCHANGED <<consensus, difficulty, key, nodes, nkeys, appvars>>

(***************************************************************************)
(* replace_chain.  The candidates are what a peer can hand in: chains of   *)
(* another node (key pair 0), of this node's chain extended by a peer,     *)
(* tampered chains and sequences that hold no block records.               *)
(***************************************************************************)
PeerKey == 0

RECURSIVE PeerChain(_, _)
PeerChain(n, cons) ==
    IF n = 0 THEN <<>>
    ELSE LET ch == PeerChain(n - 1, cons)
         IN Append(ch, NewBlock(ch, cons, 1, PeerKey, 0,
                                IF n = 1 THEN GenesisData ELSE EventTx1))

\* the chain with field f of its last block set to val
Tamper(ch, f, val) ==
    [i \in 1..Len(ch) |->
       IF i = Len(ch) THEN [ch[i] EXCEPT ![f] = val] ELSE ch[i]]

\* the peer's chains, by consensus and length
PeerChains ==
    [cons \in {"pow", "poa"} |-> [n \in 0..(MaxChain + 1) |-> PeerChain(n, cons)]]

Candidates(ch) ==
    LET n == Len(ch) IN
    {<<>>,
     PeerChains["poa"][n],
     PeerChains["pow"][n + 1],
     Append(ch, NewBlock(ch, "poa", 0, PeerKey, 0, EventTx1)),
     Tamper(PeerChains["poa"][n + 1], "hash", Str("deadbeef")),
     [i \in 1..(n + 1) |-> Num(i)]}
    \cup (IF n > 1 THEN {PeerChains["poa"][n - 1]} ELSE {})

\* a replace_chain that adopts every valid candidate, whatever its length
replace_chain_any(ch, new_chain) ==
    IF new_chain = <<>> THEN "False"
    ELSE is_valid_chain(new_chain)

\* a replace_chain that also adopts a valid candidate of equal length
replace_chain_ties(ch, new_chain) ==
    IF new_chain = <<>> THEN "False"
    ELSE IF Len(new_chain) < Len(ch) THEN "False"
    ELSE is_valid_chain(new_chain)

\* replace_chain's decision: "True", "False", or "raise" when is_valid_chain
\* raises
replace_chain(ch, new_chain) ==
    IF new_chain = <<>> THEN "False"
    ELSE IF Len(new_chain) <= Len(ch) THEN "False"
    ELSE is_valid_chain(new_chain)

Replaced(track, new_chain, r) ==
    /\ last' = IF track
               THEN [op |-> "replace_chain", ret |-> r, arg |-> new_chain]
               ELSE [op |-> "call"]
    /\ IF r = "True"
       THEN /\ chain' = new_chain
            /\ store' = save_chain(new_chain)
            /\ appends' = NoCount
       ELSE UNCHANGED <<chain, store, appends>>

\* `track`: whether the history keeps the candidate
ReplaceChainCall(track) ==
    /\ status = "up"
    /\ Len(chain) < MaxChain
    /\ \E new_chain \in Candidates(chain) :
         Replaced(track, new_chain, replace_chain(chain, new_chain))
    /\ UNCHANGED <<status, consensus, difficulty, key, nodes, nkeys, appvars>>

ReplaceChain == ReplaceChainCall(FALSE)

ReplaceChainTracked == ReplaceChainCall(TRUE)

(***************************************************************************)
(* register_node.  An address is its scheme, its host and its port;        *)
(* urlparse takes a leading name followed by ':' for the scheme.           *)
(***************************************************************************)
Addr(scheme, host, port) == [scheme |-> scheme, host |-> host, port |-> port]
NoAddr == Addr("", "", "")

\* a host that starts with a letter (a name, not a dotted IP address)
IsName(host) == host \in {"localhost", "node1"}

\* the text host:port
HostPort(host, port) ==
    CASE host = "127.0.0.1" /\ port = "5001" -> "127.0.0.1:5001"
      [] host = "localhost" /\ port = "5001" -> "localhost:5001"
      [] host = "node1" /\ port = "5001" -> "node1:5001"
      [] OTHER -> ""

\* parsed.netloc or parsed.path
urlparse_netloc(address) ==
    IF address = NoAddr THEN ""
    ELSE IF address.scheme # "" THEN HostPort(address.host, address.port)
    ELSE IF IsName(address.host) THEN address.port
    ELSE HostPort(address.host, address.port)

register_node(ns, address) ==
    LET netloc == urlparse_netloc(address)
    IN IF netloc # "" THEN ns \cup {netloc} ELSE ns

Addresses == {Addr("http", "127.0.0.1", "5001"), Addr("", "127.0.0.1", "5001"),
              NoAddr}

RegisterNode ==
    /\ status = "up"
    /\ \E address \in Addresses :
         /\ nodes' = register_node(nodes, address)
         /\ last' = [op |-> "call"]
    /\ UNCHANGED <<status, consensus, difficulty, key, chain, store, nkeys,
                   appends, appvars>>

(***************************************************************************)
(* The ledger driven through its interface by one thread.                  *)
(***************************************************************************)
NextLedger ==
    \/ Start
    \/ Exit
    \/ StoreEvaluation
    \/ ReplaceChain
    \/ RegisterNode

SpecLedger == Init /\ [][NextLedger]_vars

(***************************************************************************)
(* The conditions of a valid chain, read off its blocks.                   *)
(***************************************************************************)
Linked(ch) ==
    \A i \in 2..Len(ch) : ch[i]["previous_hash"] = ch[i - 1]["hash"]

RootsMatch(ch) ==
    \A i \in 1..Len(ch) :
       ch[i]["merkle_root"] = calculate_merkle_root(ch[i]["data"])

RecomputedHash(b) ==
    IF b["consensus"] = Str("pow")
    THEN _compute_pow_hash(b["previous_hash"], b["timestamp"].v,
                           b["merkle_root"], b["nonce"].v)
    ELSE _compute_poa_hash(b["previous_hash"], b["timestamp"].v,
                           b["merkle_root"], b["authority_id"])

HashesMatch(ch) == \A i \in 1..Len(ch) : ch[i]["hash"] = RecomputedHash(ch[i])

WorkDone(ch) ==
    \A i \in 1..Len(ch) :
       (ch[i]["consensus"] = Str("pow") /\ ch[i]["difficulty"].v > 0)
          => StartsWithZeros(ch[i]["hash"], ch[i]["difficulty"].v)

Signed(ch) ==
    \A i \in 1..Len(ch) :
       _verify_signature(ch[i]["public_key"], ch[i]["data"], ch[i]["signature"])

C6_AppendsLengthen ==
    (status = "up" /\ appends # NoCount) =>
        /\ Len(chain) = appends + 1
        /\ Linked(chain)
        /\ last.op = "store_evaluation" => last.ret = chain[Len(chain)]

\* the second append to a bootstrapped ledger has returned
C6_Witness ==
    /\ status = "up"
    /\ appends = 2
    /\ last.op = "store_evaluation"
    /\ last.ret = chain[3]

(***************************************************************************)
(* C9: a valid chain that was saved is loaded as it was, block for block,  *)
(* by a fresh instance on the same store in either consensus mode with a   *)
(* new key pair: not reset, not appended to, the store untouched, and      *)
(* is_chain_valid() true as before.                                        *)
(***************************************************************************)
C9_RoundTrip ==
    [][(/\ last.op = "exit"
        /\ is_valid_chain(last.chain) = "True"
        /\ store = save_chain(last.chain)
        /\ last'.op = "__init__")
       => (/\ last'.ret = "loaded"
           /\ chain' = last.chain
           /\ store' = store
           /\ is_valid_chain(chain') = "True")]_vars

\* a second instance, in the other consensus mode and with its own key,
\* has loaded a chain of several blocks that the first instance wrote
C9_Witness ==
    /\ status = "up"
    /\ last.op = "__init__"
    /\ last.ret = "loaded"
    /\ Len(chain) > 1
    /\ key = 2
    /\ \A i \in 1..Len(chain) :
         chain[i]["public_key"] = Pem(1) /\ chain[i]["consensus"] # Str(consensus)

(***************************************************************************)
(* One running node that is handed candidates by its peers, with the       *)
(* history keeping every candidate.                                        *)
(***************************************************************************)
NextReplace ==
    \/ Start
    \/ StoreEvaluation
    \/ ReplaceChainTracked
    \/ RegisterNode

SpecReplace == Init /\ [][NextReplace]_vars

(***************************************************************************)
(* C4: replace_chain(candidate) returns true exactly when the candidate is *)
(* non-empty, strictly longer than the node's chain and valid; a candidate *)
(* of equal length is never adopted; when it returns true the node's chain *)
(* is the candidate.                                                       *)
(***************************************************************************)
C4_ReplaceIff ==
    [][last'.op = "replace_chain" =>
         /\ (last'.ret = "True") <=>
                (/\ last'.arg # <<>>
                 /\ Len(last'.arg) > Len(chain)
                 /\ is_valid_chain(last'.arg) = "True")
         /\ Len(last'.arg) = Len(chain) => chain' = chain
         /\ last'.ret = "True" => chain' = last'.arg]_vars

\* a valid longer chain of a peer has taken the place of a chain that this
\* node had extended
C4_Witness ==
    /\ last.op = "replace_chain"
    /\ last.ret = "True"
    /\ chain = last.arg
    /\ Len(chain) = MaxChain
    /\ \A i \in 1..Len(chain) : chain[i]["public_key"] = Pem(PeerKey)

(***************************************************************************)
(* C5: a replace_chain that does not adopt its candidate (empty, not       *)
(* strictly longer, or invalid) returns the value false, it does not       *)
(* raise, and leaves the chain, the store and the peer set as they were.   *)
(***************************************************************************)
C5_RejectIsFalse ==
    [][(last'.op = "replace_chain" /\ last'.ret # "True") =>
         /\ last'.ret = "False"
         /\ UNCHANGED <<chain, store, nodes>>]_vars

(***************************************************************************)
(* app.py: the web front end.  The module creates the ledger with the      *)
(* default arguments; a POST of the form and a round of the auto-simulator *)
(* each evaluate a transaction (the pipeline appends the evaluation to the *)
(* ledger), write to Ethereum, and then work on the block and on the       *)
(* evaluation record, which is the object the block holds as its data.     *)
(* One handler runs at a time here; a handler is two steps, the call of    *)
(* the pipeline and the rest.                                              *)
(***************************************************************************)
\* _parse_form with the defaults of the form
FormTx ==
    Dict(<<KV("amount", Flt(500000)), KV("sender_id", Str("IN12345")),
           KV("receiver_id", Str("US67890"))>>)

\* generate_random_transaction: the ids are "AUTO" and four digits
AutoTx ==
    Dict(<<KV("amount", Num(100)), KV("sender_id", Str("AUTO1000")),
           KV("receiver_id", Str("AUTO2000"))>>)

\* f"MANUAL-{int(time.time())}", f"AUTO-{int(time.time())}"
ExternalId(prefix, now) == [k |-> "fstr", prefix |-> prefix, t |-> now]

\* what write_to_ethereum returns: None, or the receipt
Receipt ==
    Dict(<<KV("eth_tx_hash", Str("0xabc")), KV("eth_block_number", Num(1)),
           KV("contract", Str("0xCf7E"))>>)
EthOutcomes == {None, Receipt}

\* what the fraud model answers: the probability (in hundredths) and the
\* explanation
FraudProbs == {10, 90}
Explanation == Dict(<<KV("amount", Flt(12))>>)

AllIdle == \A t \in Threads : threads[t] = Idle

\* d["eth_tx_hash"] = ...; d["eth_block_number"] = ...
SetEth(d, eth) ==
    DSet(DSet(d, "eth_tx_hash", DGet(eth, "eth_tx_hash", None)),
         "eth_block_number", DGet(eth, "eth_block_number", None))

\* the data of the last block after the receipt was attached to it and to
\* its transaction
EthData(d, eth) ==
    IF HasKey(d, "transaction")
    THEN DSet(d, "transaction", SetEth(DGet(d, "transaction", None), eth))
    ELSE d

\* the last block after `if eth and len(local_chain.chain) > 0:`
EthBlock(block, eth) ==
    [f \in DOMAIN block \cup {"eth_tx_hash", "eth_block_number"} |->
       CASE f = "data" -> EthData(SetEth(block["data"], eth), eth)
         [] f = "eth_tx_hash" -> DGet(eth, "eth_tx_hash", None)
         [] f = "eth_block_number" -> DGet(eth, "eth_block_number", None)
         [] OTHER -> block[f]]

\* the chain with its last block replaced
WithLast(ch, block) ==
    [i \in 1..Len(ch) |-> IF i = Len(ch) THEN block ELSE ch[i]]

\* evaluation["fraud_probability"] = fraud_prob; evaluation["ethereum"] = eth
\* on the evaluation record, which is the data of the block
Annotated(block, eth) ==
    [block EXCEPT !["data"] =
       DSet(DSet(@, "fraud_probability", DGet(@, "fraud_probability", Flt(0))),
            "ethereum", eth)]

\* local_chain = LocalBlockchain()
AppStart == \E now \in Times : Construct("poa", None, now)

AppExit ==
    /\ status \in {"up", "hung"}
    /\ status' = "down"
    /\ NoInstance
    /\ AUTO_ENABLED' = FALSE
    /\ threads' = [t \in Threads |-> Idle]
    /\ last' = [op |-> "exit", chain |-> chain]
    /\ UNCHANGED <<store, nkeys, appends>>

\* index(): POST with toggle_auto
ToggleAuto ==
    /\ status = "up"
    /\ AllIdle
    /\ AUTO_ENABLED' = ~AUTO_ENABLED
    /\ last' = [op |-> "toggle_auto"]
    /\ UNCHANGED <<status, consensus, difficulty, key, chain, nodes, store,
                   nkeys, appends, threads>>

\* the evaluation record thread t hands to store_evaluation: of the form's
\* transaction in a request thread, of a generated one in the auto-simulator
ThreadPayload(t, fraud_prob, now) ==
    IF t = "web"
    THEN evaluate_transaction(FormTx, ExternalId("MANUAL", now), fraud_prob,
                              Explanation)
    ELSE evaluate_transaction(AutoTx, ExternalId("AUTO", now), fraud_prob,
                              Explanation)

\* thread t calls pipeline.evaluate_transaction, which appends the
\* evaluation record to the ledger
Evaluate(t, fraud_prob, now) ==
    /\ status = "up"
    /\ AllIdle
    /\ now \in ClockAt(chain)
    /\ Len(chain) < MaxChain
    /\ create_block(ThreadPayload(t, fraud_prob, now), now)
    /\ threads' = [threads EXCEPT ![t] = [pc |-> "evaluated"]]
    /\ UNCHANGED <<consensus, difficulty, key, nodes, nkeys, AUTO_ENABLED>>

\* index(): POST with amount, up to the return of evaluate_transaction
IndexEvaluate ==
    \E now \in Times, fraud_prob \in FraudProbs : Evaluate("web", fraud_prob, now)

\* the last block after the handler has dealt with the receipt
LastBlock(eth) ==
    IF Truthy(eth) /\ Len(chain) > 0
    THEN EthBlock(chain[Len(chain)], eth)
    ELSE chain[Len(chain)]

\* index(): from write_to_ethereum to the end of the handler
IndexFinish ==
    /\ status = "up"
    /\ threads["web"].pc = "evaluated"
    /\ \E eth \in EthOutcomes :
         /\ chain' = WithLast(chain, Annotated(LastBlock(eth), eth))
         /\ store' = IF Truthy(eth)
                     THEN save_chain(WithLast(chain, LastBlock(eth)))
                     ELSE store
    /\ threads' = [threads EXCEPT !["web"] = Idle]
    /\ last' = [op |-> "index"]
    /\ UNCHANGED <<status, consensus, difficulty, key, nodes, nkeys, appends,
                   AUTO_ENABLED>>

\* auto_simulator: a round of the loop, up to the return of
\* evaluate_transaction
AutoEvaluate ==
    /\ AUTO_ENABLED
    /\ \E now \in Times, fraud_prob \in FraudProbs : Evaluate("auto", fraud_prob, now)

\* auto_simulator: from write_to_ethereum to the end of the round
AutoFinish ==
    /\ status = "up"
    /\ threads["auto"].pc = "evaluated"
    /\ \E eth \in EthOutcomes :
         /\ chain' = WithLast(chain, LastBlock(eth))
         /\ store' = IF Truthy(eth) THEN save_chain(chain') ELSE store
    /\ threads' = [threads EXCEPT !["auto"] = Idle]
    /\ last' = [op |-> "auto_simulator"]
    /\ UNCHANGED <<status, consensus, difficulty, key, nodes, nkeys, appends,
                   AUTO_ENABLED>>

NextApp ==
    \/ AppStart
    \/ AppExit
    \/ ToggleAuto
    \/ IndexEvaluate
    \/ IndexFinish
    \/ AutoEvaluate
    \/ AutoFinish

SpecApp == Init /\ [][NextApp]_vars

IsPrefix(a, b) ==
    /\ Len(a) <= Len(b)
    /\ \A i \in 1..Len(a) : a[i] = b[i]

(***************************************************************************)
(* C2: blocks are immutable once appended: in every step of a running      *)
(* system other than an accepted replace_chain, the chain before the step  *)
(* is a field-for-field prefix of the chain after it, the steps of the web *)
(* front end after store_evaluation has returned included.                 *)
(***************************************************************************)
C2_AppendOnly ==
    [][(/\ status = "up"
        /\ status' = "up"
        /\ ~(last'.op = "replace_chain" /\ last'.ret = "True"))
       => IsPrefix(chain, chain')]_vars

(***************************************************************************)
(* C7: whenever no call is in progress the store equals the node's chain   *)
(* in memory.                                                              *)
(***************************************************************************)
C7_StoreIsChain ==
    (status = "up" /\ AllIdle) => store = save_chain(chain)

(***************************************************************************)
(* app.py with its two threads inside store_evaluation at the same time:   *)
(* a request thread of Flask and the auto-simulator thread call            *)
(* create_block on the one LocalBlockchain of the module, and nothing      *)
(* keeps one out while the other is in.  create_block is the steps between *)
(* which the other thread can run: it reads the time and the last hash, it *)
(* builds the block (reading the length of the chain), it appends, it      *)
(* opens the file for writing (which empties it), and it dumps the chain.  *)
(***************************************************************************)
InFlight == Cardinality({t \in Threads : threads[t] # Idle})

\* create_block, lines 171-173
CbRead(t) ==
    /\ status = "up"
    /\ threads[t] = Idle
    /\ t = "auto" => AUTO_ENABLED
    /\ Len(chain) + InFlight < MaxChain
    /\ \E now \in ClockAt(chain), fraud_prob \in FraudProbs :
         threads' = [threads EXCEPT ![t] =
                       [pc |-> "read",
                        data |-> ThreadPayload(t, fraud_prob, now),
                        timestamp |-> now,
                        previous_hash |-> LastHash(chain)]]
    /\ UNCHANGED <<status, consensus, difficulty, key, chain, nodes, store,
                   nkeys, appends, AUTO_ENABLED, last>>

\* create_block, lines 175-219: the hash, the signature and the block record
CbBuild(t) ==
    /\ status = "up"
    /\ threads[t].pc = "read"
    /\ threads' = [threads EXCEPT ![t] =
                     [pc |-> "built",
                      block |-> BlockOn(Len(chain) + 1, consensus, difficulty, key,
                                        threads[t].timestamp, threads[t].data,
                                        threads[t].previous_hash,
                                        calculate_merkle_root(threads[t].data))]]
    /\ UNCHANGED <<status, consensus, difficulty, key, chain, nodes, store,
                   nkeys, appends, AUTO_ENABLED, last>>

\* create_block, line 221
CbAppend(t) ==
    /\ status = "up"
    /\ threads[t].pc = "built"
    /\ chain' = Append(chain, threads[t].block)
    /\ appends' = IF appends = NoCount THEN NoCount ELSE appends + 1
    /\ threads' = [threads EXCEPT ![t].pc = "appended"]
    /\ UNCHANGED <<status, consensus, difficulty, key, nodes, store, nkeys,
                   AUTO_ENABLED, last>>

\* save_chain, line 327: open(CHAIN_FILE, "w") leaves an empty file
CbOpen(t) ==
    /\ status = "up"
    /\ threads[t].pc = "appended"
    /\ store' = Torn
    /\ threads' = [threads EXCEPT ![t].pc = "opened"]
    /\ UNCHANGED <<status, consensus, difficulty, key, chain, nodes, nkeys,
                   appends, AUTO_ENABLED, last>>

\* save_chain, line 328, and the return of create_block
CbDump(t) ==
    /\ status = "up"
    /\ threads[t].pc = "opened"
    /\ store' = save_chain(chain)
    /\ last' = [op |-> "store_evaluation", ret |-> threads[t].block]
    /\ threads' = [threads EXCEPT ![t] = Idle]
    /\ UNCHANGED <<status, consensus, difficulty, key, chain, nodes, nkeys,
                   appends, AUTO_ENABLED>>

NextConc ==
    \/ AppStart
    \/ ToggleAuto
    \/ \E t \in Threads : CbRead(t)
    \/ \E t \in Threads : CbBuild(t)
    \/ \E t \in Threads : CbAppend(t)
    \/ \E t \in Threads : CbOpen(t)
    \/ \E t \in Threads : CbDump(t)

SpecConc == Init /\ [][NextConc]_vars

(***************************************************************************)
(* C3: concurrent appends are serialized: whatever the interleaving of two *)
(* store_evaluation calls, no two blocks of the chain have the same        *)
(* previous_hash or the same index, and once both calls have returned      *)
(* is_chain_valid() holds.                                                 *)
(***************************************************************************)
C3_Serialized ==
    status = "up" =>
        /\ \A i, j \in 1..Len(chain) :
             i < j => /\ chain[i]["previous_hash"] # chain[j]["previous_hash"]
                      /\ chain[i]["index"] # chain[j]["index"]
        /\ AllIdle => is_valid_chain(chain) = "True"

(***************************************************************************)
(* Startup on a store whose content is not under the program's control:    *)
(* chain.json is absent, unparsable, a JSON document that is no list of    *)
(* block records, a chain that fails validation, or a valid chain.         *)
(***************************************************************************)
StoredContents ==
    {Absent,
     Torn,
     File(Num(5)),
     File(Str("chain")),
     File(Dict(<<KV("system", Num(1))>>)),
     File(List(<<>>)),
     File(List(<<Num(1)>>)),
     File(List(<<EmptyDict>>)),
     File(List(Tamper(PeerChains["poa"][2], "hash", Str("deadbeef")))),
     File(List(PeerChains["pow"][2]))}

InitStored ==
    /\ status = "down"
    /\ consensus = "none"
    /\ difficulty = 0
    /\ key = 0
    /\ chain = <<>>
    /\ nodes = {}
    /\ store \in StoredContents
    /\ nkeys = 0
    /\ appends = NoCount
    /\ AUTO_ENABLED = FALSE
    /\ threads = [t \in Threads |-> Idle]
    /\ last = [op |-> "none"]

SpecStartup == InitStored /\ [][NextLedger]_vars

\* the store holds a chain that is_valid_chain accepts
StoredValid(st) ==
    /\ st.k = "file"
    /\ st.doc.k = "list"
    /\ is_valid_chain(st.doc.v) = "True"

(***************************************************************************)
(* C8: startup recovery is total: whatever the store holds, the            *)
(* constructor returns without raising and leaves a non-empty valid chain: *)
(* the stored chain when that is valid, and in every other case a fresh    *)
(* genesis-only chain that has been written to the store.                  *)
(***************************************************************************)
C8_RecoveryTotal ==
    [][(last'.op = "__init__" /\ last'.ret # "hang") =>
         /\ last'.ret \in {"loaded", "fresh"}
         /\ status' = "up"
         /\ chain' # <<>>
         /\ is_valid_chain(chain') = "True"
         /\ IF StoredValid(store)
            THEN chain' = store.doc.v
            ELSE /\ Len(chain') = 1
                 /\ chain'[1]["data"] = GenesisData
                 /\ store' = save_chain(chain')]_vars

(***************************************************************************)
(* A node that can be killed inside store_evaluation or inside an accepted *)
(* replace_chain: before save_chain opens the file, after open(.., "w")    *)
(* has emptied it and before json.dump has written all of the chain, or    *)
(* after the dump.                                                         *)
(***************************************************************************)
CrashPoints == {"before_open", "opened", "dumped"}

\* chain.json when the process dies at `point` of writing the chain `new`
StoreAt(point, st, new) ==
    CASE point = "before_open" -> st
      [] point = "opened" -> Torn
      [] OTHER -> save_chain(new)

Killed(durable, writing, st) ==
    /\ status' = "down"
    /\ NoInstance
    /\ store' = st
    /\ appends' = NoCount
    /\ last' = [op |-> "crash", durable |-> durable, writing |-> writing]
    /\ UNCHANGED <<nkeys, appvars>>

CrashInStore ==
    /\ status = "up"
    /\ Len(chain) < MaxChain
    /\ \E data \in Payloads, now \in ClockAt(chain), point \in CrashPoints :
         /\ MiningEnds(chain, consensus, difficulty, now, data)
         /\ Killed(chain,
                   Append(chain, NewBlock(chain, consensus, difficulty, key, now, data)),
                   StoreAt(point, store,
                           Append(chain, NewBlock(chain, consensus, difficulty, key,
                                                  now, data))))

CrashInReplace ==
    /\ status = "up"
    /\ Len(chain) < MaxChain
    /\ \E new_chain \in Candidates(chain), point \in CrashPoints :
         /\ replace_chain(chain, new_chain) = "True"
         /\ Killed(chain, new_chain, StoreAt(point, store, new_chain))

NextCrash ==
    \/ Start
    \/ Exit
    \/ StoreEvaluation
    \/ ReplaceChain
    \/ CrashInStore
    \/ CrashInReplace

SpecCrash == Init /\ [][NextCrash]_vars

(***************************************************************************)
(* C10: when the process dies inside store_evaluation or inside an         *)
(* accepted replace_chain, at any point of writing the snapshot, the chain *)
(* of the node after restart is the chain that was durable before the call *)
(* or the chain the call was writing.                                      *)
(***************************************************************************)
C10_CrashSafe ==
    [][(last.op = "crash" /\ last'.op = "__init__" /\ last'.ret # "hang") =>
         (chain' = last.durable \/ chain' = last.writing)]_vars

(***************************************************************************)
(* Tampering with a chain the ledger produced.  One field of one block is  *)
(* set to a different value and is_valid_chain is asked about the result;  *)
(* the node's own chain is left alone.                                     *)
(***************************************************************************)
TamperFields ==
    {"hash", "previous_hash", "merkle_root", "nonce", "signature", "data"}

\* the chain with field f of block i set to val
TamperAt(ch, i, f, val) ==
    [j \in 1..Len(ch) |-> IF j = i THEN [ch[j] EXCEPT ![f] = val] ELSE ch[j]]

\* the values a field of block b is changed to: another digest, the number
\* 0 for the text "0", the next nonce, an empty signature and the signature
\* of another key, another payload
TamperValues(b, f) ==
    (CASE f = "hash" -> {Str("deadbeef")}
       [] f = "previous_hash" -> {Str("deadbeef"), Num(0)}
       [] f = "merkle_root" -> {Str("deadbeef")}
       [] f = "nonce" -> {Num(b["nonce"].v + 1)}
       [] f = "signature" -> {Str(""), _sign_data(PeerKey, b["data"])}
       [] OTHER -> {EventTx1})
    \ {b[f]}

\* LocalBlockchain.is_valid_chain(tampered copy of the chain)
TamperCheck ==
    /\ status = "up"
    /\ \E i \in 1..Len(chain), f \in TamperFields :
         \E val \in TamperValues(chain[i], f) :
            last' = [op |-> "tamper", i |-> i, f |-> f, val |-> val,
                     ret |-> is_valid_chain(TamperAt(chain, i, f, val))]
    /\ UNCHANGED <<status, consensus, difficulty, key, chain, nodes, store,
                   nkeys, appends, appvars>>

NextTamper ==
    \/ Start
    \/ StoreEvaluation
    \/ TamperCheck

SpecTamper == Init /\ [][NextTamper]_vars

(***************************************************************************)
(* C11: tamper evidence: for every chain the ledger produced, in either    *)
(* consensus mode, and every block of it, setting exactly one of hash,     *)
(* previous_hash, merkle_root, nonce, signature or data to a different     *)
(* value makes is_valid_chain return false.                                *)
(***************************************************************************)
C11_TamperEvident ==
    last.op = "tamper" => last.ret = "False"

(***************************************************************************)
(* is_valid_chain applied to what a caller can hand it: the node's chain,  *)
(* the chain with a field of its last block missing or of the wrong type,  *)
(* and sequences whose elements are not block records.                     *)
(***************************************************************************)
\* the block without the field f
Without(b, f) == [g \in DOMAIN b \ {f} |-> b[g]]

ValidateInputs(ch) ==
    LET n == Len(ch) IN
    {ch,
     <<Num(1)>>, <<None>>, <<Bool(TRUE)>>, <<Str("ab")>>, <<List(<<>>)>>,
     <<EmptyDict>>,
     [i \in 1..n |-> IF i = n THEN Without(ch[i], "hash") ELSE ch[i]],
     [i \in 1..n |-> IF i = n THEN Without(ch[i], "timestamp") ELSE ch[i]],
     TamperAt(ch, n, "timestamp", Str("abc")),
     TamperAt(ch, n, "nonce", None),
     TamperAt(ch, n, "difficulty", Str("high")),
     TamperAt(ch, n, "signature", Str("zz")),
     TamperAt(ch, n, "public_key", Num(5)),
     TamperAt(ch, n, "signature", Str("")),
     TamperAt(ch, n, "hash", Str("deadbeef")),
     TamperAt(ch, n, "previous_hash", Str("deadbeef")),
     TamperAt(ch, n, "merkle_root", Str("deadbeef")),
     TamperAt(ch, n, "data", EventTx1),
     TamperAt(ch, n, "difficulty", Num(DigestLen + 1)),
     TamperAt(ch, n, "consensus", Str("pow")),
     [i \in 1..n |-> IF i = n THEN Without(ch[i], "signature") ELSE ch[i]],
     [i \in 1..n |-> IF i = n THEN Without(ch[i], "consensus") ELSE ch[i]]}

\* LocalBlockchain.is_valid_chain(candidate)
ValidateCall ==
    /\ status = "up"
    /\ \E candidate \in ValidateInputs(chain) :
         last' = [op |-> "is_valid_chain", arg |-> candidate,
                  ret |-> is_valid_chain(candidate)]
    /\ UNCHANGED <<status, consensus, difficulty, key, chain, nodes, store,
                   nkeys, appends, appvars>>

NextValidate ==
    \/ Start
    \/ StoreEvaluation
    \/ ValidateCall

SpecValidate == Init /\ [][NextValidate]_vars

(***************************************************************************)
(* C12: is_valid_chain is total: for every candidate, a sequence whose     *)
(* elements are not block records, records with missing fields and records *)
(* whose fields have the wrong type included, it returns a boolean and     *)
(* never raises.                                                           *)
(***************************************************************************)
C12_Total ==
    last.op = "is_valid_chain" => last.ret \in {"True", "False"}

(***************************************************************************)
(* The conditions of a valid block as the validator's contract lists them. *)
(***************************************************************************)
\* the consensus tag of a block, by difficulty for a record without the tag
TagOf(b) ==
    Get(b, "consensus",
        Str(IF IntOf(Get(b, "difficulty", Num(0))) > 0 THEN "pow" ELSE "poa"))

\* the digest recomputed by the formula of the block's consensus tag
DigestOf(b) ==
    IF TagOf(b) = Str("pow")
    THEN sha256(<<Fmt(Get(b, "previous_hash", Str(""))), Fmt(b["timestamp"]),
                  Fmt(b["merkle_root"]), Fmt(Get(b, "nonce", Num(0)))>>)
    ELSE sha256(<<Fmt(Get(b, "previous_hash", Str(""))), Fmt(b["timestamp"]),
                  Fmt(b["merkle_root"]), Fmt(Get(b, "authority_id", Str("")))>>)

BlockPasses(ch, i, b) ==
    /\ IsDict(b)
    /\ RequiredFields \subseteq DOMAIN b
    /\ i > 1 => Get(b, "previous_hash", None) = Get(ch[i - 1], "hash", None)
    /\ b["merkle_root"] = calculate_merkle_root(DataOf(b["data"]))
    /\ b["hash"] = DigestOf(b)
    /\ (TagOf(b) = Str("pow") /\ IntOf(Get(b, "difficulty", Num(0))) > 0)
          => StartsWithZeros(b["hash"], IntOf(Get(b, "difficulty", Num(0))))
    /\ {"signature", "public_key"} \subseteq DOMAIN b
          => _verify_signature(b["public_key"], DataOf(b["data"]), b["signature"])

(***************************************************************************)
(* C13: is_valid_chain(chain) is true exactly when the chain is non-empty  *)
(* and every block has timestamp, data, merkle_root and hash, is linked to *)
(* the block before it by previous_hash, has the merkle_root recomputed    *)
(* from its data and the hash recomputed by the formula of its consensus   *)
(* tag, has difficulty leading zeros when it is a proof-of-work block with *)
(* difficulty > 0, and has a signature that verifies when both signature   *)
(* and public_key are present.  The empty chain is invalid.                *)
(***************************************************************************)
C13_ValidIff ==
    last.op = "is_valid_chain" =>
        ((last.ret = "True") <=>
            (/\ last.arg # <<>>
             /\ \A i \in 1..Len(last.arg) : BlockPasses(last.arg, i, last.arg[i])))

(***************************************************************************)
(* A node that is restarted on its stored chain with another configuration *)
(* (the other consensus mode, another difficulty) between appends.         *)
(***************************************************************************)
\* LocalBlockchain(consensus, difficulty): <<consensus, difficulty>>
AllConfigs ==
    {<<"poa", None>>, <<"pow", None>>, <<"pow", Num(2)>>, <<"pow", Num(0)>>}

StartAny == \E cfg \in AllConfigs, now \in Times : Construct(cfg[1], cfg[2], now)

NextConfig ==
    \/ StartAny
    \/ Exit
    \/ StoreEvaluation

SpecConfig == Init /\ [][NextConfig]_vars

(***************************************************************************)
(* C14: every block store_evaluation produces in PoW mode records          *)
(* consensus pow, the node's configured difficulty and a hash that starts  *)
(* with that many '0' characters; every block it produces in PoA mode      *)
(* records consensus poa, difficulty 0, nonce 0 and a populated            *)
(* authority_id.                                                           *)
(***************************************************************************)
C14_BlockRecordsMode ==
    (status = "up" /\ last.op = "store_evaluation") =>
        IF consensus = "pow"
        THEN /\ last.ret["consensus"] = Str("pow")
             /\ last.ret["difficulty"] = Num(difficulty)
             /\ StartsWithZeros(last.ret["hash"], difficulty)
             /\ last.ret["hash"].n < 2 ^ (DigestLen - difficulty)
        ELSE /\ last.ret["consensus"] = Str("poa")
             /\ last.ret["difficulty"] = Num(0)
             /\ last.ret["nonce"] = Num(0)
             /\ "authority_id" \in DOMAIN last.ret
             /\ Truthy(last.ret["authority_id"])

\* a node restarted in PoW mode with difficulty 2 on a chain that holds an
\* authority block has mined a block: the search went past the first nonce
C14_Witness ==
    /\ status = "up"
    /\ last.op = "store_evaluation"
    /\ consensus = "pow"
    /\ difficulty = 2
    /\ last.ret["nonce"].v > 0
    /\ last.ret = chain[Len(chain)]
    /\ \E i \in 1..Len(chain) : chain[i]["consensus"] = Str("poa")

\* the chain holds blocks of different consensus modes or difficulties
Mixed(ch) ==
    \E i, j \in 1..Len(ch) :
       \/ ch[i]["consensus"] # ch[j]["consensus"]
       \/ ch[i]["difficulty"] # ch[j]["difficulty"]

(***************************************************************************)
(* C15: validation is per block, against the block's own recorded          *)
(* consensus and difficulty: after the node's difficulty was raised        *)
(* between appends, or the node was restarted in the other consensus mode  *)
(* on the stored chain, and after every append that follows, the whole     *)
(* chain is valid.                                                         *)
(***************************************************************************)
C15_MixedChainValid ==
    (status = "up" /\ Mixed(chain)) =>
        /\ is_valid_chain(chain) = "True"
        /\ HashesMatch(chain)
        /\ WorkDone(chain)

\* a chain of two blocks mined at difficulty 2, the second without the
\* zeros of the default difficulty, and a block mined at the default
\* difficulty after a restart, just appended
C15_Witness ==
    /\ status = "up"
    /\ last.op = "store_evaluation"
    /\ Len(chain) = 3
    /\ chain[1]["consensus"] = Str("pow") /\ chain[1]["difficulty"] = Num(2)
    /\ chain[2]["consensus"] = Str("pow") /\ chain[2]["difficulty"] = Num(2)
    /\ chain[3]["difficulty"] = Num(DEFAULT_DIFFICULTY)
    /\ ~StartsWithZeros(chain[2]["hash"], DEFAULT_DIFFICULTY)

(***************************************************************************)
(* Readers.  recent(limit) is the slice self.chain[-limit:]: it starts at  *)
(* len - limit, or at the first block when that is negative; the slice     *)
(* from -0 is the slice from 0.                                            *)
(***************************************************************************)
SliceStart(n, start) ==
    IF start < 0
    THEN (IF n + start < 0 THEN 0 ELSE n + start)
    ELSE (IF start > n THEN n ELSE start)

recent(ch, limit) == SubSeq(ch, SliceStart(Len(ch), 0 - limit) + 1, Len(ch))

\* api_chain: jsonify(local_chain.recent(limit=200))
ApiLimit == 200

\* a request thread serves GET /api/chain while the other threads are
\* wherever they are; the history keeps what it returned and what the store
\* held at that moment
ApiChain ==
    /\ status = "up"
    /\ last' = [op |-> "api_chain", ret |-> recent(chain, ApiLimit),
                store |-> store]
    /\ UNCHANGED <<status, consensus, difficulty, key, chain, nodes, store,
                   nkeys, appends, appvars>>

NextRead ==
    \/ NextConc
    \/ ApiChain

SpecRead == Init /\ [][NextRead]_vars

\* the block is in the chain that chain.json holds
Durable(st, block) ==
    /\ st.k = "file"
    /\ st.doc.k = "list"
    /\ \E j \in 1..Len(st.doc.v) : st.doc.v[j] = json_dump(block)

(***************************************************************************)
(* C16: a reader that runs while store_evaluation is in progress never     *)
(* sees a block in the in-memory chain that has not yet been written to    *)
(* the persisted store.                                                    *)
(***************************************************************************)
C16_ReadersSeeDurable ==
    last.op = "api_chain" =>
        \A i \in 1..Len(last.ret) : Durable(last.store, last.ret[i])

(***************************************************************************)
(* register_node with the address of a peer written with and without a     *)
(* scheme, for a host that is an IP address and for hosts that are names.  *)
(***************************************************************************)
AllAddresses ==
    {Addr("http", "127.0.0.1", "5001"), Addr("", "127.0.0.1", "5001"),
     Addr("http", "localhost", "5001"), Addr("", "localhost", "5001"),
     Addr("http", "node1", "5001"), Addr("", "node1", "5001"),
     NoAddr}

\* register_node(address), the history keeping the address
RegisterAny ==
    /\ status = "up"
    /\ \E address \in AllAddresses :
         /\ nodes' = register_node(nodes, address)
         /\ last' = [op |-> "register_node", address |-> address]
    /\ UNCHANGED <<status, consensus, difficulty, key, chain, store, nkeys,
                   appends, appvars>>

NextPeers ==
    \/ Start
    \/ StoreEvaluation
    \/ RegisterAny

SpecPeers == Init /\ [][NextPeers]_vars

(***************************************************************************)
(* C17: register_node normalizes an address to host:port: the address of a *)
(* peer with a scheme and without one, for a host that is an IP address or *)
(* a name, gives one and the same entry of the peer set; registering an    *)
(* address twice leaves the set unchanged; an empty address adds nothing;  *)
(* the chain and the store are never changed.                              *)
(***************************************************************************)
C17_RegisterNormalizes ==
    [][last'.op = "register_node" =>
         /\ nodes' = IF last'.address = NoAddr
                     THEN nodes
                     ELSE nodes \cup {HostPort(last'.address.host,
                                               last'.address.port)}
         /\ (last.op = "register_node" /\ last.address = last'.address)
               => nodes' = nodes
         /\ UNCHANGED <<chain, store>>]_vars

(***************************************************************************)
(* recent(limit) called between appends.                                   *)
(***************************************************************************)
\* the limits a caller passes: none, fewer than, as many as and more than
\* the blocks of the chain
Limits == 0..(MaxChain + 1)

RecentCall ==
    /\ status = "up"
    /\ \E limit \in Limits :
         last' = [op |-> "recent", limit |-> limit, ret |-> recent(chain, limit)]
    /\ UNCHANGED <<status, consensus, difficulty, key, chain, nodes, store,
                   nkeys, appends, appvars>>

NextRecent ==
    \/ Start
    \/ Exit
    \/ StoreEvaluation
    \/ RecentCall

SpecRecent == Init /\ [][NextRecent]_vars

\* the last n blocks of the chain, in chain order
LastBlocks(ch, n) == SubSeq(ch, Len(ch) - n + 1, Len(ch))

(***************************************************************************)
(* C18: recent(limit) returns the last min(limit, len(chain)) blocks in    *)
(* chain order for every limit >= 0: no blocks for limit = 0, the whole    *)
(* chain for limit >= len(chain); it leaves the chain unchanged.           *)
(***************************************************************************)
C18_RecentIsTail ==
    [][last'.op = "recent" =>
         /\ last'.ret =
              LastBlocks(chain, IF last'.limit < Len(chain)
                                THEN last'.limit ELSE Len(chain))
         /\ last'.limit = 0 => last'.ret = <<>>
         /\ last'.limit >= Len(chain) => last'.ret = chain
         /\ chain' = chain]_vars

(***************************************************************************)
(* AMLPipeline.evaluate_transaction with the ledger as its sink.           *)
(***************************************************************************)
\* transactions for the three return paths: an unverified sender, an
\* amount above the threshold, and one that reaches the fraud model
PipelineTxs ==
    <<Tx(30000, "UK54321", "SG34567"),
      Tx(30000, "IN12345", "US67890"),
      Tx(100, "IN12345", "US67890")>>

\* an evaluate_transaction that returns a KYC rejection without storing it
SinkCalls_kyc_unstored(result) ==
    IF DGet(result, "status", None) = Str("rejected_kyc")
    THEN <<>>
    ELSE <<result>>

\* the records evaluate_transaction hands to self.sink.store_evaluation, in
\* the order of the calls: lines 65, 78 and 104, one on each return path
SinkCalls(result) ==
    CASE DGet(result, "status", None) = Str("rejected_kyc") -> <<result>>
      [] DGet(result, "status", None) = Str("rejected_rules") -> <<result>>
      [] OTHER -> <<result>>

\* the chain after store_evaluation was called with each of `calls`
RECURSIVE StoreAll(_, _, _, _, _, _)
StoreAll(ch, cons, diff, k, now, calls) ==
    IF calls = <<>> THEN ch
    ELSE StoreAll(Append(ch, NewBlock(ch, cons, diff, k, now, Head(calls))),
                  cons, diff, k, now, Tail(calls))

\* the evaluation record of transaction n of PipelineTxs
PipelineResult(n, fraud_prob) ==
    evaluate_transaction(PipelineTxs[n], Str("tx-1"), fraud_prob, Explanation)

Evaluated(n, fraud_prob, now) ==
    LET result == PipelineResult(n, fraud_prob)
        calls == SinkCalls(PipelineResult(n, fraud_prob))
    IN IF \A i \in 1..Len(calls) :
             MiningEnds(chain, consensus, difficulty, now, calls[i])
       THEN /\ chain' = StoreAll(chain, consensus, difficulty, key, now, calls)
            /\ store' = IF calls = <<>> THEN store ELSE save_chain(chain')
            /\ appends' = IF appends = NoCount THEN NoCount
                          ELSE appends + Len(calls)
            /\ last' = [op |-> "evaluate_transaction", ret |-> result]
            /\ UNCHANGED status
       ELSE /\ status' = "hung"
            /\ last' = [op |-> "evaluate_transaction", ret |-> None]
            /\ UNCHANGED <<chain, store, appends>>

\* pipeline.evaluate_transaction(transaction, external_id)
PipelineEvaluate ==
    /\ status = "up"
    /\ Len(chain) < MaxChain
    /\ \E n \in 1..Len(PipelineTxs), fraud_prob \in FraudProbs, now \in Times :
         /\ now \in ClockAt(chain)
         /\ Evaluated(n, fraud_prob, now)
    /\ UNCHANGED <<consensus, difficulty, key, nodes, nkeys, appvars>>

NextPipeline ==
    \/ Start
    \/ PipelineEvaluate

SpecPipeline == Init /\ [][NextPipeline]_vars

Reverse(items) == [i \in 1..Len(items) |-> items[Len(items) + 1 - i]]

\* the dict with the keys of the dicts inside it inserted in reverse order
RECURSIVE ReorderedInside(_)
ReorderedInside(v) ==
    CASE v.k = "dict" ->
           Dict([i \in 1..Len(v.v) |->
                   KV(v.v[i].key,
                      IF v.v[i].val.k = "dict"
                      THEN Dict(Reverse(ReorderedInside(v.v[i].val).v))
                      ELSE v.v[i].val)])
      [] OTHER -> v

\* the payload as another caller builds it
Reordered(d, how) ==
    CASE how = "top" -> Dict(Reverse(d.v))
      [] how = "nested" -> ReorderedInside(d)
      [] how = "all" -> Dict(Reverse(ReorderedInside(d).v))
      [] OTHER -> DSet(d, d.v[1].key, Str("changed"))

\* the payload of the last block
DataOfLast(ch) == ch[Len(ch)]["data"]

\* self.calculate_merkle_root(data) for the payload of the last block
\* and for a payload built in another order
MerkleCall ==
    /\ status = "up"
    /\ \E how \in {"top", "nested", "all", "changed"} :
         last' = [op |-> "calculate_merkle_root",
                  a |-> DataOfLast(chain),
                  b |-> Reordered(DataOfLast(chain), how),
                  root_a |-> calculate_merkle_root(DataOfLast(chain)),
                  root_b |-> calculate_merkle_root(Reordered(DataOfLast(chain), how))]
    /\ UNCHANGED <<status, consensus, difficulty, key, chain, nodes, store,
                   nkeys, appends, appvars>>

NextMerkle ==
    \/ Start
    \/ PipelineEvaluate
    \/ MerkleCall

SpecMerkle == Init /\ [][NextMerkle]_vars

\* the two payloads map the same keys to the same values, at every depth
RECURSIVE SameMapping(_, _)
SameMapping(a, b) ==
    IF a.k = "dict" /\ b.k = "dict"
    THEN /\ {a.v[i].key : i \in 1..Len(a.v)} = {b.v[i].key : i \in 1..Len(b.v)}
         /\ Len(a.v) = Len(b.v)
         /\ \A i \in 1..Len(a.v) :
              SameMapping(a.v[i].val, DGet(b, a.v[i].key, None))
    ELSE a = b

C22_StoreReturns ==
    last.op = "store_evaluation" => status # "hung"

(***************************************************************************)
(* The validator asked about a block whose digest was computed by one      *)
(* formula and whose consensus tag says pow, says poa, or is missing.      *)
(***************************************************************************)
\* the digest of the block's own fields by the PoW or the PoA formula
DigestBy(b, formula) ==
    IF formula = "pow"
    THEN _compute_pow_hash(b["previous_hash"], b["timestamp"].v,
                           b["merkle_root"], b["nonce"].v)
    ELSE _compute_poa_hash(b["previous_hash"], b["timestamp"].v,
                           b["merkle_root"], Get(b, "authority_id", Str("")))

\* the block tagged `tag` (without the tag for "none"), with the digest of
\* `formula` as its hash
Retagged(b, tag, formula) ==
    IF tag = "none"
    THEN Without([b EXCEPT !["hash"] = DigestBy(b, formula)], "consensus")
    ELSE [b EXCEPT !["hash"] = DigestBy(b, formula), !["consensus"] = Str(tag)]

\* LocalBlockchain.is_valid_chain(the chain with its last block retagged)
DispatchCall ==
    /\ status = "up"
    /\ \E tag \in {"pow", "poa", "none"}, formula \in {"pow", "poa"} :
         last' = [op |-> "dispatch", tag |-> tag, formula |-> formula,
                  block |-> chain[Len(chain)],
                  ret |-> is_valid_chain(
                             WithLast(chain,
                                      Retagged(chain[Len(chain)], tag, formula)))]
    /\ UNCHANGED <<status, consensus, difficulty, key, chain, nodes, store,
                   nkeys, appends, appvars>>

NextDispatch ==
    \/ StartAny
    \/ StoreEvaluation
    \/ DispatchCall

SpecDispatch == Init /\ [][NextDispatch]_vars

\* the formula the contract prescribes for a block with this tag and
\* difficulty
FormulaFor(tag, diff) ==
    IF tag = "none" THEN (IF diff > 0 THEN "pow" ELSE "poa") ELSE tag

(***************************************************************************)
(* C23: the validator picks the digest formula from the block's own        *)
(* consensus tag; for a block without the tag it uses the PoW formula when *)
(* the block's difficulty is > 0 and the PoA formula otherwise; it never   *)
(* applies the PoA formula to a block tagged pow or the PoW formula to a   *)
(* block tagged poa.                                                       *)
(***************************************************************************)
C23_DispatchOnTag ==
    last.op = "dispatch" =>
        /\ last.ret = "True" =>
             DigestBy(last.block, last.formula) =
             DigestBy(last.block,
                      FormulaFor(last.tag, last.block["difficulty"].v))
        /\ (/\ last.formula = FormulaFor(last.tag, last.block["difficulty"].v)
            /\ (last.formula = "pow" =>
                  StartsWithZeros(DigestBy(last.block, "pow"),
                                  last.block["difficulty"].v)))
              => last.ret = "True"

\* a block mined at difficulty 2, stripped of its tag, was accepted with
\* its PoW digest, and rejected blocks were seen as well
C23_Witness ==
    /\ last.op = "dispatch"
    /\ last.tag = "none"
    /\ last.formula = "pow"
    /\ last.block["difficulty"] = Num(2)
    /\ last.block["nonce"].v > 0
    /\ last.ret = "True"

(***************************************************************************)
(* The validator asked about a chain one block of which lost its signature *)
(* or its public key, or carries a signature or a key of another signer.   *)
(***************************************************************************)
SignatureCases ==
    {"no_signature", "no_public_key", "neither", "foreign_signature",
     "foreign_key"}

\* block b of a chain, changed in its signature fields only
Resigned(b, how) ==
    CASE how = "no_signature" -> Without(b, "signature")
      [] how = "no_public_key" -> Without(b, "public_key")
      [] how = "neither" -> Without(Without(b, "signature"), "public_key")
      [] how = "foreign_signature" ->
             [b EXCEPT !["signature"] = _sign_data(PeerKey, b["data"])]
      [] OTHER -> [b EXCEPT !["public_key"] = Pem(PeerKey)]

ResignedAt(ch, i, how) ==
    [j \in 1..Len(ch) |-> IF j = i THEN Resigned(ch[j], how) ELSE ch[j]]

\* LocalBlockchain.is_valid_chain(the chain with block i changed)
SignatureCall ==
    /\ status = "up"
    /\ \E i \in 1..Len(chain), how \in SignatureCases :
         last' = [op |-> "signature", i |-> i, how |-> how,
                  block |-> chain[i],
                  ret |-> is_valid_chain(ResignedAt(chain, i, how))]
    /\ UNCHANGED <<status, consensus, difficulty, key, chain, nodes, store,
                   nkeys, appends, appvars>>

NextSignature ==
    \/ Start
    \/ StoreEvaluation
    \/ SignatureCall

SpecSignature == Init /\ [][NextSignature]_vars

Examined_setdefault(block) ==
    IF IsDict(block)
    THEN [f \in DOMAIN block \cup {"consensus"} |->
            IF f \in DOMAIN block THEN block[f] ELSE Str("poa")]
    ELSE block

\* the block object after the loop body has run on it
Examined(block) ==
    block

\* the candidate sequence after the call
ExaminedChain(candidate) ==
    [i \in 1..Len(candidate) |-> Examined(candidate[i])]

\* LocalBlockchain.is_valid_chain(candidate), the candidate being the
\* node's own list when it equals it
IsValidChainCall ==
    /\ status = "up"
    /\ \E candidate \in ValidateInputs(chain) :
         /\ last' = [op |-> "is_valid_chain(candidate)", arg |-> candidate,
                     after |-> ExaminedChain(candidate),
                     ret |-> is_valid_chain(candidate)]
         /\ chain' = IF candidate = chain THEN ExaminedChain(candidate)
                     ELSE chain
    /\ UNCHANGED <<status, consensus, difficulty, key, nodes, store, nkeys,
                   appends, appvars>>

\* LocalBlockchain.is_chain_valid()
IsChainValidCall ==
    /\ status = "up"
    /\ last' = [op |-> "is_chain_valid()", arg |-> chain,
                after |-> ExaminedChain(chain),
                ret |-> is_valid_chain(chain)]
    /\ chain' = ExaminedChain(chain)
    /\ UNCHANGED <<status, consensus, difficulty, key, nodes, store, nkeys,
                   appends, appvars>>

NextFrame ==
    \/ Start
    \/ StoreEvaluation
    \/ RegisterNode
    \/ IsValidChainCall
    \/ IsChainValidCall

SpecFrame == Init /\ [][NextFrame]_vars

(***************************************************************************)
(* C25: is_valid_chain and is_chain_valid are side-effect-free: whatever   *)
(* they return (or raise), the candidate sequence, the node's chain, the   *)
(* peer set and the persisted store are the same after the call as before. *)
(***************************************************************************)
C25_ValidationIsPure ==
    [][last'.op \in {"is_valid_chain(candidate)", "is_chain_valid()"} =>
         /\ last'.after = last'.arg
         /\ chain' = chain
         /\ nodes' = nodes
         /\ store' = store]_vars

\* a candidate that lacks the consensus tag on its last block was accepted
\* by a node that has a peer and a stored chain of two blocks
C25_Witness ==
    /\ last.op = "is_valid_chain(candidate)"
    /\ last.ret = "True"
    /\ "consensus" \notin DOMAIN last.arg[Len(last.arg)]
    /\ Len(chain) = 2
    /\ nodes # {}
    /\ store = save_chain(chain)

(***************************************************************************)
(* A node that is handed chains by a peer which is free in what it sends:  *)
(* the peer's own chain, that chain with another index on its last block,  *)
(* the chain without its genesis block, and chains whose last block names  *)
(* an authority that is not its signer, names one on a PoW block, or names *)
(* none on a PoA block (the digests computed over the fields as sent).     *)
(***************************************************************************)
\* the chain with the PoA digest of its last block recomputed
Rehashed(ch) ==
    Tamper(ch, "hash", DigestBy(ch[Len(ch)], "poa"))

\* the chain whose last block carries `authority_id`
WithAuthority(ch, authority_id) ==
    [i \in 1..Len(ch) |->
       IF i = Len(ch)
       THEN [f \in DOMAIN ch[i] \cup {"authority_id"} |->
               IF f = "authority_id" THEN authority_id ELSE ch[i][f]]
       ELSE ch[i]]

\* the chain whose last block carries no authority_id
WithoutAuthority(ch) ==
    [i \in 1..Len(ch) |->
       IF i = Len(ch) THEN Without(ch[i], "authority_id") ELSE ch[i]]

Offers(ch) ==
    LET n == Len(ch) IN
    {PeerChains["poa"][n + 1],
     PeerChains["pow"][n + 1],
     Tamper(PeerChains["poa"][n + 1], "index", Num(MaxChain + 4)),
     SubSeq(PeerChains["poa"][n + 2], 2, n + 2),
     Rehashed(WithAuthority(PeerChains["poa"][n + 1], _authority_id(1))),
     WithAuthority(PeerChains["pow"][n + 1], _authority_id(PeerKey)),
     Rehashed(WithoutAuthority(PeerChains["poa"][n + 1]))}

\* LocalBlockchain.replace_chain(new_chain)
AdoptCall ==
    /\ status = "up"
    /\ Len(chain) < MaxChain
    /\ \E new_chain \in Offers(chain) :
         Replaced(TRUE, new_chain, replace_chain(chain, new_chain))
    /\ UNCHANGED <<status, consensus, difficulty, key, nodes, nkeys, appvars>>

NextAdopt ==
    \/ Start
    \/ Exit
    \/ StoreEvaluation
    \/ AdoptCall

SpecAdopt == Init /\ [][NextAdopt]_vars

(***************************************************************************)
(* C26: in every chain a node holds, after any sequence of                 *)
(* store_evaluation, accepted replace_chain and restarts, each block's     *)
(* index equals its 1-based position in the chain.                         *)
(***************************************************************************)
C26_IndexIsPosition ==
    status = "up" =>
        \A i \in 1..Len(chain) : chain[i]["index"] = Num(i)

(***************************************************************************)
(* C27: every chain a node holds, bootstrapped, loaded or adopted through  *)
(* replace_chain, starts with a genesis block whose previous_hash is the   *)
(* sentinel "0": a fragment that starts at a later block is never          *)
(* accepted as a chain.                                                    *)
(***************************************************************************)
C27_StartsAtGenesis ==
    (status = "up" /\ chain # <<>>) =>
        chain[1]["previous_hash"] = Str("0")

(***************************************************************************)
(* C28: in every chain a node holds, authority_id is present exactly on    *)
(* the blocks whose consensus is poa, and on each such block it is the     *)
(* fingerprint of the block's own public_key.                              *)
(***************************************************************************)
C28_AuthorityIsSigner ==
    status = "up" =>
        \A i \in 1..Len(chain) :
            /\ "authority_id" \in DOMAIN chain[i]
                 <=> chain[i]["consensus"] = Str("poa")
            /\ chain[i]["consensus"] = Str("poa") =>
                 chain[i]["authority_id"] =
                 _authority_id(chain[i]["public_key"].key)

(***************************************************************************)
(* store_evaluation with every kind of record a caller hands in: pipeline  *)
(* results (with a transaction), a record without a transaction, a record  *)
(* whose transaction is empty or null, the empty record, and the null-like *)
(* payloads None and [].                                                   *)
(***************************************************************************)
AnyPayloads ==
    {PipelineResult(n, 0) : n \in 1..Len(PipelineTxs)}
    \cup {EventTx1, EmptyDict, None, List(<<>>),
          Dict(<<KV("transaction", None)>>),
          Dict(<<KV("transaction", Dict(<<KV("sender_id", Str("IN12345"))>>))>>)}

StoreAny ==
    /\ status = "up"
    /\ Len(chain) < MaxChain
    /\ \E data \in AnyPayloads, now \in ClockAt(chain) : create_block(data, now)
    /\ UNCHANGED <<consensus, difficulty, key, nodes, nkeys, appvars>>

(***************************************************************************)
(* compute_balances / get_balance.  A balance sheet is a function from     *)
(* wallet ids to amounts.                                                  *)
(***************************************************************************)
\* tx = data.get("transaction", {}) or {}, with data = block.get("data", {}) or {}
TxOf(block) ==
    DataOf(DGet(DataOf(Get(block, "data", EmptyDict)), "transaction", EmptyDict))

\* float(tx.get("amount", 0) or 0), 0.0 when float() raises
AmountOf(tx) ==
    LET amount == DGet(tx, "amount", Num(0)) IN
    IF ~Truthy(amount) THEN 0
    ELSE CASE amount.k = "num" -> amount.v
           [] amount.k = "bool" -> 1
           [] OTHER -> 0

\* a sheet that sets the wallet to the amount of the last block seen
Credit_overwrite(balances, wallet, amount) ==
    [w \in DOMAIN balances \cup {wallet} |-> IF w = wallet THEN amount ELSE balances[w]]

\* balances[wallet] = balances.get(wallet, 0.0) + amount
Credit(balances, wallet, amount) ==
    [w \in DOMAIN balances \cup {wallet} |-> (IF w \in DOMAIN balances THEN balances[w] ELSE 0) + (IF w = wallet THEN amount ELSE 0)]

Credited(balances, receiver, amount) ==
    IF Truthy(receiver) THEN Credit(balances, receiver, amount) ELSE balances

Debited(balances, sender, amount) ==
    IF Truthy(sender) THEN Credit(balances, sender, 0 - amount) ELSE balances

\* one pass of the loop body
Posted(balances, tx) ==
    IF ~Truthy(tx) THEN balances
    ELSE Credited(Debited(balances, DGet(tx, "sender_id", None), AmountOf(tx)),
                  DGet(tx, "receiver_id", None), AmountOf(tx))

RECURSIVE BalancesFrom(_, _, _)
BalancesFrom(ch, i, balances) ==
    IF i > Len(ch) THEN balances
    ELSE BalancesFrom(ch, i + 1, Posted(balances, TxOf(ch[i])))

compute_balances(ch) == BalancesFrom(ch, 1, <<>>)

get_balance(ch, wallet_id) ==
    IF wallet_id \in DOMAIN compute_balances(ch)
    THEN compute_balances(ch)[wallet_id]
    ELSE 0

Wallets ==
    {Str("IN12345"), Str("US67890"), Str("SG34567"), Str("UK54321"),
     Str("nobody")}

\* LocalBlockchain.compute_balances()
ComputeBalancesCall ==
    /\ status = "up"
    /\ last' = [op |-> "compute_balances", ret |-> compute_balances(chain)]
    /\ UNCHANGED <<status, consensus, difficulty, key, chain, nodes, store,
                   nkeys, appends, appvars>>

\* LocalBlockchain.get_balance(wallet_id)
GetBalanceCall ==
    /\ status = "up"
    /\ \E wallet_id \in Wallets :
         last' = [op |-> "get_balance", wallet_id |-> wallet_id,
                  ret |-> get_balance(chain, wallet_id)]
    /\ UNCHANGED <<status, consensus, difficulty, key, chain, nodes, store,
                   nkeys, appends, appvars>>

NextBalances ==
    \/ Start
    \/ StoreAny
    \/ ComputeBalancesCall
    \/ GetBalanceCall

SpecBalances == Init /\ [][NextBalances]_vars

\* what the blocks of the chain that hold a transaction record move into
\* (+) and out of (-) the wallet
RECURSIVE NetFlow(_, _, _)
NetFlow(ch, n, wallet) ==
    IF n = 0 THEN 0
    ELSE NetFlow(ch, n - 1, wallet)
         + (IF DGet(TxOf(ch[n]), "receiver_id", None) = wallet
            THEN AmountOf(TxOf(ch[n])) ELSE 0)
         - (IF DGet(TxOf(ch[n]), "sender_id", None) = wallet
            THEN AmountOf(TxOf(ch[n])) ELSE 0)

\* the wallets named by a block that holds a transaction record
Named(ch) ==
    {w \in Wallets : \E i \in 1..Len(ch) :
        w \in {DGet(TxOf(ch[i]), "receiver_id", None),
               DGet(TxOf(ch[i]), "sender_id", None)}}

(***************************************************************************)
(* C29: compute_balances and get_balance are read-only projections         *)
(* recomputed from scratch: a call leaves the chain, the store and the     *)
(* validity of the chain unchanged; the result is a function of the        *)
(* current chain alone (a second call with no append in between returns    *)
(* the same); blocks without a transaction record contribute nothing; and  *)
(* get_balance(id) is compute_balances()[id], or 0 for an id that no block *)
(* names.                                                                  *)
(***************************************************************************)
C29_BalancesAreProjection ==
    /\ [](last.op = "compute_balances" =>
            /\ DOMAIN last.ret = Named(chain)
            /\ \A w \in Named(chain) : last.ret[w] = NetFlow(chain, Len(chain), w))
    /\ [](last.op = "get_balance" =>
            /\ last.ret = NetFlow(chain, Len(chain), last.wallet_id)
            /\ last.wallet_id \notin Named(chain) => last.ret = 0)
    /\ [][last'.op \in {"compute_balances", "get_balance"} =>
            /\ chain' = chain
            /\ store' = store
            /\ is_valid_chain(chain') = is_valid_chain(chain)
            /\ (last.op = last'.op /\ last.op = "compute_balances")
                 => last'.ret = last.ret]_vars

\* a wallet that received in two blocks of a chain that also holds a block
\* without a transaction record (the genesis block)
C29_Witness ==
    /\ last.op = "get_balance"
    /\ last.wallet_id = Str("US67890")
    /\ Len(chain) = 3
    /\ TxOf(chain[1]) = EmptyDict
    /\ TxOf(chain[2]) # TxOf(chain[3])
    /\ last.ret = AmountOf(TxOf(chain[2])) + AmountOf(TxOf(chain[3]))
    /\ last.ret > AmountOf(TxOf(chain[3]))
    /\ AmountOf(TxOf(chain[3])) > 0

(***************************************************************************)
(* C30: the payload check of the creation side and of the validation side  *)
(* agree for every payload store_evaluation accepts, the empty record and  *)
(* the empty or null-like payloads included: the root that create_block    *)
(* stored is the root is_valid_chain recomputes from the stored block, and *)
(* the stored signature verifies over the payload as is_valid_chain reads  *)
(* it, so the block that was just appended passes the Merkle and the       *)
(* signature check.                                                        *)
(***************************************************************************)
C30_CreateAgreesWithValidate ==
    (last.op = "store_evaluation" /\ status = "up") =>
        /\ last.ret["merkle_root"] = _calculate_merkle_for_block(last.ret)
        /\ CheckSignature(last.ret, last.ret["signature"],
                          last.ret["public_key"]) = "ok"
        /\ CheckBlock(chain, Len(chain)) = "ok"

(***************************************************************************)
(* store_evaluation that raises.  create_block has four places where an    *)
(* exception leaves it: json.dumps of the payload in calculate_merkle_root *)
(* (a payload that is not JSON-serializable), _sign_data, open(.., "w") in *)
(* save_chain, and json.dump in save_chain (after open has emptied the     *)
(* file).  Nothing in create_block or store_evaluation catches it.         *)
(***************************************************************************)
FailSteps == {"serialize", "sign", "open", "dump"}

\* self.chain when the exception leaves create_block: the block is appended
\* before save_chain is called
ChainAtFailure(step, ch, block) ==
    IF step \in {"open", "dump"} THEN Append(ch, block) ELSE ch

\* chain.json when the exception leaves create_block
StoreAtFailure(step, st) ==
    IF step = "dump" THEN Torn ELSE st

StoreRaises ==
    /\ status = "up"
    /\ Len(chain) < MaxChain
    /\ \E data \in Payloads, now \in ClockAt(chain), step \in FailSteps :
         /\ step # "serialize" => MiningEnds(chain, consensus, difficulty, now, data)
         /\ chain' = ChainAtFailure(step, chain,
                                    NewBlock(chain, consensus, difficulty, key,
                                             now, data))
         /\ store' = StoreAtFailure(step, store)
         /\ last' = [op |-> "store_evaluation raised", step |-> step,
                     chain |-> chain, store |-> store]
    /\ appends' = NoCount
    /\ UNCHANGED <<status, consensus, difficulty, key, nodes, nkeys, appvars>>

NextFail ==
    \/ Start
    \/ Exit
    \/ StoreEvaluation
    \/ StoreRaises

SpecFail == Init /\ [][NextFail]_vars

(***************************************************************************)
(* C31: store_evaluation is atomic with respect to failure: when the call  *)
(* raises at any step (the payload cannot be serialized, signing fails, or *)
(* writing the store fails), the in-memory chain and the persisted store   *)
(* are what they were before the call, and neither holds the new block.    *)
(***************************************************************************)
C31_AtomicOnFailure ==
    last.op = "store_evaluation raised" =>
        /\ chain = last.chain
        /\ store = last.store

(***************************************************************************)
(* app.py with a request thread and the auto-simulator thread between the  *)
(* return of evaluate_transaction and the end of the handler: while one    *)
(* thread waits in write_to_ethereum the other can append its own block.   *)
(* Each Ethereum transaction has its own hash; here the hash names the     *)
(* thread whose evaluation it was sent for.                                *)
(***************************************************************************)
PrefixOf(t) == IF t = "web" THEN "MANUAL" ELSE "AUTO"

\* what write_to_ethereum(external_id, ...) returns to thread t when the
\* contract answers
ReceiptOf(t) ==
    Dict(<<KV("eth_tx_hash", Str(PrefixOf(t))), KV("eth_block_number", Num(1)),
           KV("contract", Str("0xCf7E"))>>)

\* the block that store_evaluation appended for the evaluation thread t has
\* in hand: the latest block that carries an external_id of the thread
IsOwn(t, block) ==
    /\ HasKey(block["data"], "external_id")
    /\ DGet(block["data"], "external_id", None).prefix = PrefixOf(t)

OwnBlock(t, ch) ==
    CHOOSE i \in 1..Len(ch) :
        /\ IsOwn(t, ch[i])
        /\ \A j \in (i + 1)..Len(ch) : ~IsOwn(t, ch[j])

\* thread t calls pipeline.evaluate_transaction while the other thread may
\* be in its handler
EvaluateIn(t, fraud_prob, now) ==
    /\ status = "up"
    /\ threads[t] = Idle
    /\ t = "auto" => AUTO_ENABLED
    /\ now \in ClockAt(chain)
    /\ Len(chain) < MaxChain
    /\ create_block(ThreadPayload(t, fraud_prob, now), now)
    /\ threads' = [threads EXCEPT ![t] = [pc |-> "evaluated"]]
    /\ UNCHANGED <<consensus, difficulty, key, nodes, nkeys, AUTO_ENABLED>>

ThreadEvaluate ==
    \E t \in Threads, now \in Times, fraud_prob \in FraudProbs :
        EvaluateIn(t, fraud_prob, now)

\* the chain after thread t has attached `eth` to local_chain.chain[-1]
\* and, in the request thread, has written evaluation["ethereum"] on the
\* record it evaluated
Attached(t, ch, eth) ==
    LET marked == WithLast(ch, IF Truthy(eth) THEN EthBlock(ch[Len(ch)], eth)
                              ELSE ch[Len(ch)])
    IN IF t = "web"
       THEN [i \in 1..Len(ch) |->
               IF i = OwnBlock(t, ch) THEN Annotated(marked[i], eth)
               ELSE marked[i]]
       ELSE marked

\* thread t from the return of write_to_ethereum to the end of its handler
FinishIn(t, answered) ==
    /\ status = "up"
    /\ threads[t].pc = "evaluated"
    /\ chain' = Attached(t, chain, IF answered THEN ReceiptOf(t) ELSE None)
    /\ store' = IF answered
                THEN save_chain(WithLast(chain, EthBlock(chain[Len(chain)],
                                                         ReceiptOf(t))))
                ELSE store
    /\ threads' = [threads EXCEPT ![t] = Idle]
    /\ last' = [op |-> "finish", t |-> t, answered |-> answered]
    /\ UNCHANGED <<status, consensus, difficulty, key, nodes, nkeys, appends,
                   AUTO_ENABLED>>

ThreadFinish == \E t \in Threads, answered \in BOOLEAN : FinishIn(t, answered)

NextReceipt ==
    \/ AppStart
    \/ AppExit
    \/ ToggleAuto
    \/ ThreadEvaluate
    \/ ThreadFinish

SpecReceipt == Init /\ [][NextReceipt]_vars

(***************************************************************************)
(* C32: in the web application the Ethereum receipt obtained for an        *)
(* evaluation is attached to the block that store_evaluation appended for  *)
(* that evaluation, in every interleaving of the auto-simulator thread and *)
(* the request threads: a block that carries a receipt carries the receipt *)
(* of the transaction sent for its own evaluation.                         *)
(***************************************************************************)
C32_ReceiptOnOwnBlock ==
    \A i \in 1..Len(chain) :
        "eth_tx_hash" \in DOMAIN chain[i] =>
            \E t \in Threads :
                /\ IsOwn(t, chain[i])
                /\ chain[i]["eth_tx_hash"] = DGet(ReceiptOf(t), "eth_tx_hash", None)

(***************************************************************************)
(* A node through its lifetimes: started on whatever the store holds, it   *)
(* appends, is handed candidates by peers and is read.                     *)
(***************************************************************************)
NextLength ==
    \/ Start
    \/ Exit
    \/ StoreEvaluation
    \/ ReplaceChainTracked
    \/ RecentCall

SpecLength == InitStored /\ [][NextLength]_vars

(***************************************************************************)
(* C33: within one process lifetime the length of the node's chain never   *)
(* decreases and is at least 1 once the constructor has returned: a        *)
(* store_evaluation that returns increases it by exactly one, an accepted  *)
(* replace_chain strictly increases it, and every other operation leaves   *)
(* it unchanged.                                                           *)
(***************************************************************************)
C33_LengthGrows ==
    /\ [](status = "up" => Len(chain) >= 1)
    /\ [][(status = "up" /\ status' = "up") =>
            /\ Len(chain') >= Len(chain)
            /\ CASE last'.op = "store_evaluation" -> Len(chain') = Len(chain) + 1
                 [] last'.op = "replace_chain" ->
                      IF last'.ret = "True" THEN Len(chain') > Len(chain)
                      ELSE chain' = chain
                 [] OTHER -> Len(chain') = Len(chain)]_vars

\* a node that loaded a stored chain has appended to it and then adopted a
\* longer chain of a peer
C33_Witness ==
    /\ status = "up"
    /\ last.op = "replace_chain"
    /\ last.ret = "True"
    /\ Len(chain) = 3
    /\ appends = NoCount
    /\ nkeys = 1
    /\ store = save_chain(chain)

(***************************************************************************)
(* The validator asked about a chain in which the recorded difficulty of   *)
(* one PoW block was changed, everything else left as it was.              *)
(***************************************************************************)
Difficulties == 0..(DigestLen + 1)

\* LocalBlockchain.is_valid_chain(the chain with another difficulty on block i)
DifficultyCall ==
    /\ status = "up"
    /\ \E i \in 1..Len(chain), d \in Difficulties :
         /\ chain[i]["consensus"] = Str("pow")
         /\ last' = [op |-> "difficulty", i |-> i, d |-> d, block |-> chain[i],
                     ret |-> is_valid_chain(TamperAt(chain, i, "difficulty", Num(d)))]
    /\ UNCHANGED <<status, consensus, difficulty, key, chain, nodes, store,
                   nkeys, appends, appvars>>

NextDifficulty ==
    \/ StartAny
    \/ StoreEvaluation
    \/ DifficultyCall

SpecDifficulty == Init /\ [][NextDifficulty]_vars

\* the number of leading zero digits of a digest
LeadingZeros(h) ==
    CHOOSE d \in 0..DigestLen :
        /\ StartsWithZeros(h, d)
        /\ \A e \in (d + 1)..DigestLen : ~StartsWithZeros(h, e)

EvalTxs ==
    <<Tx(100, "IN12345", "US67890"),
      Tx(HighValueThreshold, "IN12345", "SG34567"),
      Tx(HighValueThreshold + 1, "IN12345", "US67890"),
      Tx(100, "UK54321", "SG34567"),
      Tx(HighValueThreshold + 1, "IN12345", "NG00001"),
      DSet(Tx(100, "US67890", "SG34567"), "amount", None),
      DSet(Tx(100, "US67890", "SG34567"), "amount", Str("abc")),
      Dict(<<KV("sender_id", Str("IN12345")), KV("receiver_id", Str("US67890"))>>),
      Dict(<<KV("amount", Num(100)), KV("sender_id", Str("IN12345"))>>)>>

EvalProbs == {0, FraudThreshold - 1, FraudThreshold, 90}

\* the calls evaluate_transaction makes before it hands the record to the
\* sink, in their order
Stages(transaction) ==
    IF ~check_kyc(transaction) THEN <<"check_kyc">>
    ELSE IF ~enforce_rules(transaction)[1] THEN <<"check_kyc", "enforce_rules">>
    ELSE <<"check_kyc", "enforce_rules", "predict_proba", "explain">>

\* the ledger and the history after AMLPipeline.evaluate_transaction on
\* transaction n with the model answering fraud_prob
EvaluatedTx(n, fraud_prob, now) ==
    /\ chain' = Append(chain,
                       NewBlock(chain, consensus, difficulty, key, now,
                                evaluate_transaction(EvalTxs[n], Str("tx-1"),
                                                     fraud_prob, Explanation)))
    /\ store' = save_chain(chain')
    /\ appends' = IF appends = NoCount THEN NoCount ELSE appends + 1
    /\ last' = [op |-> "evaluate", transaction |-> EvalTxs[n],
                fraud_prob |-> fraud_prob,
                calls |-> Stages(EvalTxs[n]),
                ret |-> evaluate_transaction(EvalTxs[n], Str("tx-1"),
                                             fraud_prob, Explanation)]

PipelineCall ==
    /\ status = "up"
    /\ Len(chain) < MaxChain - 1
    /\ \E n \in 1..Len(EvalTxs), fraud_prob \in EvalProbs, now \in ClockAt(chain) :
         EvaluatedTx(n, fraud_prob, now)
    /\ UNCHANGED <<status, consensus, difficulty, key, nodes, nkeys, appvars>>

NextEvaluate ==
    \/ AppStart
    \/ PipelineCall

SpecEvaluate == Init /\ [][NextEvaluate]_vars

Keys(d) == {d.v[i].key : i \in 1..Len(d.v)}

\* the transaction names two verified users
KycPasses(transaction) ==
    /\ HasKey(transaction, "sender_id")
    /\ HasKey(transaction, "receiver_id")
    /\ DGet(transaction, "sender_id", None) \in VerifiedUsers
    /\ DGet(transaction, "receiver_id", None) \in VerifiedUsers

\* the amount is a number (0 when the transaction has none) that is not
\* above the high-value threshold
RulesPass(transaction) ==
    \/ ~HasKey(transaction, "amount")
    \/ /\ DGet(transaction, "amount", None).k = "num"
       /\ DGet(transaction, "amount", None).v <= HighValueThreshold

(***************************************************************************)
(* C35: evaluate_transaction decides in the fixed order KYC, rules, model:  *)
(* a transaction whose sender or receiver is not a verified user gets      *)
(* rejected_kyc with no rule check and no model call; one that passes KYC  *)
(* but whose amount is invalid or above the high-value threshold gets      *)
(* rejected_rules with no model call; otherwise the status is              *)
(* flagged_fraud if and only if the fraud probability is >= the fraud      *)
(* threshold, else approved.  The recorded payload carries exactly the     *)
(* fields of the stage reached, and it is the payload of the new block.    *)
(***************************************************************************)
C35_KycRulesModel ==
    last.op = "evaluate" =>
        /\ chain[Len(chain)]["data"] = last.ret
        /\ IF ~KycPasses(last.transaction)
           THEN /\ DGet(last.ret, "status", None) = Str("rejected_kyc")
                /\ last.calls = <<"check_kyc">>
                /\ Keys(last.ret) = {"external_id", "transaction", "kyc_ok",
                                     "status", "reason"}
           ELSE IF ~RulesPass(last.transaction)
           THEN /\ DGet(last.ret, "status", None) = Str("rejected_rules")
                /\ last.calls = <<"check_kyc", "enforce_rules">>
                /\ Keys(last.ret) = {"external_id", "transaction", "kyc_ok",
                                     "rule_compliant", "rule_reason", "status",
                                     "reason"}
           ELSE /\ DGet(last.ret, "status", None) =
                     Str(IF last.fraud_prob >= FraudThreshold
                         THEN "flagged_fraud" ELSE "approved")
                /\ last.calls = <<"check_kyc", "enforce_rules", "predict_proba",
                                  "explain">>
                /\ Keys(last.ret) = {"external_id", "transaction", "kyc_ok",
                                     "rule_compliant", "rule_reason",
                                     "fraud_probability", "is_fraud", "status",
                                     "explanation"}

\* a transaction that fails KYC and is above the threshold was rejected
\* for KYC
C35_Witness ==
    /\ last.op = "evaluate"
    /\ ~KycPasses(last.transaction)
    /\ ~RulesPass(last.transaction)
    /\ DGet(last.ret, "status", None) = Str("rejected_kyc")
    /\ Len(chain) = 2

(***************************************************************************)
(* The constructor called with any consensus argument.  The membership     *)
(* test is the first statement of __init__; everything else (the key pair, *)
(* load_chain, the bootstrap) comes after it.                              *)
(***************************************************************************)
ConsensusArgs == {"pow", "poa", "raft", "POW", ""}

\* a constructor that takes every consensus value
ConsensusOk_unchecked(cons) ==
    TRUE

\* consensus in {"pow", "poa"}
ConsensusOk(cons) ==
    cons \in {"pow", "poa"}

\* LocalBlockchain(consensus=cons)
ConstructAny(cons, now) ==
    /\ status = "down"
    /\ nkeys < MaxInstances
    /\ IF ConsensusOk(cons)
       THEN ConstructWith(cons, DEFAULT_DIFFICULTY, now)
       ELSE /\ last' = [op |-> "__init__ refused", consensus |-> cons]
            /\ UNCHANGED <<status, consensus, difficulty, key, chain, nodes,
                           store, nkeys, appends, appvars>>

StartChecked == \E cons \in ConsensusArgs, now \in Times : ConstructAny(cons, now)

NextRefuse ==
    \/ StartChecked
    \/ Exit
    \/ StoreEvaluation

SpecRefuse == Init /\ [][NextRefuse]_vars

(***************************************************************************)
(* C36: constructing a LocalBlockchain with a consensus value other than   *)
(* pow or poa fails with an error before any state is touched: no key pair *)
(* is generated, the persisted store is neither read nor written, and no   *)
(* chain is created; no node ever runs in another consensus mode.          *)
(***************************************************************************)
C36_BadConsensusRefused ==
    /\ [](status # "down" => consensus \in {"pow", "poa"})
    /\ [](\A i \in 1..Len(chain) : chain[i]["consensus"] \in {Str("pow"), Str("poa")})
    /\ [][last'.op = "__init__ refused" =>
            /\ last'.consensus \notin {"pow", "poa"}
            /\ status' = "down"
            /\ chain' = <<>>
            /\ nkeys' = nkeys
            /\ store' = store]_vars

\* a constructor call with consensus "raft" was refused on a machine whose
\* store holds the chain of an earlier lifetime
C36_Witness ==
    /\ last.op = "__init__ refused"
    /\ last.consensus = "raft"
    /\ status = "down"
    /\ nkeys = 1
    /\ store.k = "file"
    /\ Len(store.doc.v) = 2

====
